---- MODULE Spec2Model ----
(***************************************************************************)
(* Query Iteration Engine of lcp: one Logical Query, from the first        *)
(* request through the primary callbacks, the listener's continuations and *)
(* the client's resumption (pagination) requests.                          *)
(*                                                                         *)
(* Modelled from src/lcpvian/qi.py (QueryIteration), src/lcpvian/          *)
(* query_service.py (QueryService.query and its cache lookup) and          *)
(* src/backend/callbacks.py (_query, _get_status).  The request handler    *)
(* that drives a QueryIteration and the pub/sub listener are not among the *)
(* sources; they are modelled from sections 4.6 and 4.7 of the             *)
(* specification and are marked as such where they are defined.            *)
(*                                                                         *)
(* Specifications: Spec, one Logical Query with its resumptions;           *)
(* CacheSpec, two requests with the same query; SelectorSpec, the Batch    *)
(* Selector (decide_batch) applied to one iteration; AggSpec, the Result   *)
(* Aggregator (utils._add_results, utils._union_results) under the primary *)
(* and the sentence callbacks, with the rows of the results spelled out;   *)
(* ReplaySpec, the replay of a finished primary job from the cache;        *)
(* HandlerSpec, the primary callback called on Job objects fetched from    *)
(* the cache; MergeSpec, two sentence callbacks step by step; FailureSpec, *)
(* the failure callback; FanoutSpec, the primary, sentence and metadata    *)
(* jobs of a Logical Query under the worker runtime and the cancellation   *)
(* (QueryService.sentences, cancel, cancel_running_jobs, jobfuncs);        *)
(* SessionSpec, cancel_running_jobs among the jobs of several users and    *)
(* rooms; SentencesSpec, QueryService.sentences against a cache that holds *)
(* the sentence job, the metadata job, both or neither; AddResultsSpec,    *)
(* utils._add_results on the rows of one primary job.                      *)
(*                                                                         *)
(* Abstractions: a batch is (name, approximate_row_count); the SQL of an   *)
(* iteration is determined by the query text and the batch, so the primary *)
(* fingerprint hash(sql) is the batch name; the rows a primary job returns *)
(* are represented by the number of rows of its plain result set, which is *)
(* a property of the database content (db).  The comparison against        *)
(* needed * 1.1 is done in exact arithmetic.                               *)
(***************************************************************************)
EXTENDS Integers, Sequences, FiniteSets, TLC

VARIABLES
    all_batches,   \* QueryIteration.all_batches: the batches of the corpus, size-ascending
    use_cache,     \* QueryService.use_cache (app["_use_cache"])
    page_size,     \* the client's page_size, sent with every request
    db,            \* database content: batch name -> plain rows the primary returns
    qi,            \* the QueryIteration object of the latest handler run
    jobs,          \* the job registry in the cache: fingerprint -> job
    channel,       \* pub/sub channel: messages published and not yet heard
    client,        \* the last message the listener forwarded to the client
    nreq,          \* number of HTTP requests received so far
    agg,           \* the Result Aggregator's view of one Logical Query (AggSpec)
    store,         \* the messages stored in the cache: message id -> payload
    workers,       \* the callbacks in progress, or the jobs the workers execute
    sents,         \* the sentence and metadata jobs in the cache: fingerprint -> job
    canceled,      \* app["canceled"]
    commands       \* the cancel and stop commands sent to the worker runtime

\* the state of the replay, of the sentence and metadata jobs and of the
\* cancellation
side_vars == <<store, workers, sents, canceled, commands>>

vars == <<all_batches, use_cache, page_size, db, qi, jobs, channel, client, nreq, agg,
          side_vars>>

----------------------------------------------------------------------------
(* Bounds *)

MaxRequests == 2      \* HTTP requests of one behaviour (the first one creates the query)
MaxOffset == 1        \* largest offset of a resumption request
MaxDone == 4          \* a primary job runs only while it carries fewer done batches
MaxBatches == 2       \* batches of the corpus the Result Aggregator works through
MaxRows == 2          \* rows a primary job returns to the Result Aggregator
MaxRestart == 1       \* largest hit_limit handed to the primary callback
MaxObjects == 2       \* Job objects fetched from the cache for one job
MaxCalls == 2         \* calls of the primary callback on one Job object
MaxCancels == 2       \* calls of cancel_running_jobs in one behaviour
MaxWorkers == 1       \* jobs the workers execute at a time

----------------------------------------------------------------------------
(* Batches *)

Batch(n, s) == [name |-> n, size |-> s]

\* Python's None for `Batch | None`, and an exception leaving decide_batch
None == [name |-> "None", size |-> 0]
Raise == [name |-> "Raise", size |-> 0]

\* str.endswith("rest") on the batch names of the model
RestNames == {"tokrest"}
EndsWithRest(name) == name \in RestNames

\* config[corpus]["_batches"] of the corpora the model draws from, in dict order
Corpora ==
    { << Batch("tokrest", 500), Batch("tok0", 100), Batch("tok1", 400) >>,
      << Batch("tok0", 100), Batch("tokrest", 50) >>,
      << Batch("seg0", 400), Batch("seg1", 100) >> }

\* rows a primary job can return for one batch
RowCounts == {0, 2, 30}
\* total_results_requested values a client sends (-1: unlimited)
Quotas == {-1, 3, 40}
PageSizes == {2, 40}

Range(s) == { s[i] : i \in 1..Len(s) }
InSeq(x, s) == \E i \in 1..Len(s) : s[i] = x
Last(s) == s[Len(s)]
Min(a, b) == IF a < b THEN a ELSE b

RECURSIVE SumSizes(_)
SumSizes(S) ==
    IF S = {} THEN 0
    ELSE LET x == CHOOSE y \in S : TRUE IN x.size + SumSizes(S \ {x})

RECURSIVE SumSeqSizes(_)
SumSeqSizes(s) == IF s = <<>> THEN 0 ELSE Head(s).size + SumSeqSizes(Tail(s))

\* sorted(out, key=lambda x: x[-1]): stable insertion into a size-ascending list
RECURSIVE InsertBySize(_, _)
InsertBySize(b, s) ==
    IF s = <<>> THEN <<b>>
    ELSE IF Last(s).size <= b.size THEN Append(s, b)
    ELSE Append(InsertBySize(b, SubSeq(s, 1, Len(s) - 1)), Last(s))

RECURSIVE SortBySize(_)
SortBySize(s) ==
    IF s = <<>> THEN <<>>
    ELSE InsertBySize(Last(s), SortBySize(SubSeq(s, 1, Len(s) - 1)))

\* QueryIteration._get_query_batches: every batch of the corpus, sorted by size
\* (the batch names of the model carry no language suffix, so none is skipped)
get_query_batches(batches) == SortBySize(batches)


----------------------------------------------------------------------------
(* QueryIteration *)

NoJobId == ""

\* the user and the room of the session the Logical Query belongs to
User == "user"
Room == "room"

\* the users and rooms jobs are submitted for, and those a cancellation can
\* name: the room of a request may be empty
JobUsers == { User, "other" }
JobRooms == { Room, "lobby" }
CallUsers == JobUsers \cup { "" }
CallRooms == JobRooms \cup { "" }

\* the dataclass QueryIteration with its defaults (qi.py 62-102); origin and
\* outcome record which constructor made the object and what submit_query did
NewQI(all, tot_req, needed, psize) ==
    [ all_batches |-> all,
      total_results_requested |-> tot_req,
      needed |-> needed,
      page_size |-> psize,
      resume |-> FALSE,
      previous |-> NoJobId,
      current_batch |-> None,
      done_batches |-> <<>>,
      total_results_so_far |-> 0,
      job_id |-> NoJobId,
      start_query_from_sents |-> FALSE,
      no_more_data |-> FALSE,
      full |-> FALSE,
      offset |-> 0,
      first_job |-> NoJobId,
      is_vian |-> FALSE,
      post_processes |-> << >>,
      user |-> User,
      room |-> Room,
      origin |-> "none",
      ret |-> None,
      outcome |-> "none" ]

\* buffer = 0.1, in tenths
BufferTenths == 1
\* the 25 of min(self.page_size, 25)
QuickLimit == 25

\* decide_batch, resumption rule: the last done batch
resumption(self) ==
    LET all_done == Len(self.done_batches) = Len(self.all_batches) IN
    [ ret |-> Last(self.done_batches),
      no_more_data |-> IF all_done THEN TRUE ELSE self.no_more_data,
      start_query_from_sents |->
          IF all_done THEN FALSE ELSE self.start_query_from_sents ]

\* first iteration without the preference for the "rest" batch
first_iteration_smallest(all) == IF all = <<>> THEN Raise ELSE all[1]

\* decide_batch, first iteration: the "rest" batch or the smallest one;
\* the default all_batches[0] is evaluated before next() is called
first_iteration(all) ==
    IF all = <<>> THEN Raise
    ELSE LET rests == { i \in 1..Len(all) : EndsWithRest(all[i].name) } IN
         IF rests # {}
         THEN all[CHOOSE i \in rests : \A k \in rests : i <= k]
         ELSE all[1]

\* membership tested against the first done batch only
is_done_first_only(batch, done_batches) ==
    done_batches # <<>> /\ batch = Head(done_batches)

\* `batch in self.done_batches`
is_done(batch, done_batches) == InSeq(batch, done_batches)

\* the quick test without the cap of 25 on page_size
quota_pick_uncapped(self, batch, total_words) ==
    \/ /\ self.page_size > 0
       /\ self.total_results_so_far < self.page_size
    \/ 10 * batch.size * self.total_results_so_far
           >= (10 + BufferTenths) * self.needed * total_words

\* decide_batch, the two tests that return a not-done batch under quota:
\*   page_size > 0 and so_far < min(page_size, 25)
\*   batch[-1] * (so_far / total_words) >= needed + needed * buffer
quota_pick(self, batch, total_words) ==
    \/ /\ self.page_size > 0
       /\ self.total_results_so_far < Min(self.page_size, QuickLimit)
    \/ 10 * batch.size * self.total_results_so_far
           >= (10 + BufferTenths) * self.needed * total_words

\* full-corpus mode taken as `self.full and self.needed == -1`
full_corpus_both(self) == self.full /\ self.needed = -1

\* `self.full or self.needed == -1`
full_corpus(self) == self.full \/ self.needed = -1

\* decide_batch, the loop over all_batches from position i
RECURSIVE next_batch(_, _, _, _)
next_batch(self, i, first_not_done, total_words) ==
    IF i > Len(self.all_batches)
    THEN IF first_not_done = None THEN Raise ELSE first_not_done
    ELSE LET batch == self.all_batches[i] IN
         IF is_done(batch, self.done_batches)
         THEN next_batch(self, i + 1, first_not_done, total_words)
         ELSE IF full_corpus(self) THEN batch
         ELSE IF quota_pick(self, batch, total_words) THEN batch
         ELSE next_batch(self, i + 1,
                         IF first_not_done = None THEN batch ELSE first_not_done,
                         total_words)

\* every batch taken as done as soon as one batch is done
all_done_some(self) == self.done_batches # <<>>

\* `len(self.done_batches) == len(self.all_batches)`
all_done(self) == Len(self.done_batches) = Len(self.all_batches)

\* the single-batch rule raising whatever done_batches is
single_batch_raises(self) == Raise

\* decide_batch, `if self.is_vian:` the one batch, or ValueError once a batch
\* is done
single_batch(self) ==
    IF self.done_batches # <<>> THEN Raise ELSE self.all_batches[1]

\* QueryIteration.decide_batch: the batch returned (None, or Raise for an
\* exception) and the two attributes it may set
decide_batch(self) ==
    LET keep(b) == [ ret |-> b,
                     no_more_data |-> self.no_more_data,
                     start_query_from_sents |-> self.start_query_from_sents ]
        total_words_processed_so_far == SumSizes(Range(self.done_batches))
    IN
    IF self.current_batch # None THEN keep(None)
    ELSE IF self.done_batches # <<>> /\ self.resume THEN resumption(self)
    ELSE IF ~self.resume /\ all_done(self)
         THEN [ keep(None) EXCEPT !.no_more_data = TRUE ]
    ELSE IF self.is_vian THEN keep(single_batch(self))
    ELSE IF Len(self.done_batches) = 0 THEN keep(first_iteration(self.all_batches))
    ELSE IF total_words_processed_so_far = 0 THEN keep(Raise)
    ELSE keep(next_batch(self, 1, None, total_words_processed_so_far))


----------------------------------------------------------------------------
(* Jobs, messages and the primary-success callback *)

\* query_kwargs built by submit_query: the iteration descriptor stored as job.kwargs
Kwargs(self) ==
    [ needed |-> self.needed,
      total_results_requested |-> self.total_results_requested,
      done_batches |-> self.done_batches,
      all_batches |-> self.all_batches,
      current_batch |-> self.current_batch,
      total_results_so_far |-> self.total_results_so_far,
      page_size |-> self.page_size,
      resume |-> self.resume,
      full |-> self.full,
      is_vian |-> self.is_vian,
      post_processes |-> self.post_processes,
      first_job |-> self.first_job,
      user |-> self.user,
      room |-> self.room ]

NoMeta == [ status |-> "none", total_results_so_far |-> 0, percentage_done |-> 0 ]

\* a fingerprint with no entry in the cache (Job.fetch raises NoSuchJobError)
NoJob ==
    [ status |-> "absent",
      kwargs |-> Kwargs(NewQI(<<>>, 0, 0, 0)),
      result |-> 0,
      meta |-> NoMeta ]

NoMsg ==
    [ status |-> "none", job |-> NoJobId, first_job |-> NoJobId,
      done_batches |-> <<>>, all_batches |-> <<>>, current_batch |-> None,
      total_results_so_far |-> 0, total_results_requested |-> 0,
      batch_matches |-> 0, percentage_done |-> 0, needed |-> 0, page_size |-> 0,
      resume |-> FALSE, full |-> FALSE, is_vian |-> FALSE, no_restart |-> FALSE ]

\* `tot_req in {-1, False, None}`: in Python False == 0, so 0 is in the set
NoQuota == {-1, 0}

\* callbacks._get_status
get_status(n_results, tot_req, done_batches, batches) ==
    IF Len(done_batches) = Len(batches) THEN "finished"
    ELSE IF tot_req \in NoQuota THEN "partial"
    ELSE IF n_results >= tot_req THEN "satisfied"
    ELSE "partial"

\* callbacks._query run for job `id`: the meta it writes and the message it
\* publishes; raised when one of its divisions is by zero (nothing is saved
\* or published then).  percentage_done is kept in thousandths of a percent.
query_callback(id, job) ==
    LET kw == job.kwargs
        total_before_now == kw.total_results_so_far
        total_requested == kw.total_results_requested
        n_results == job.result
        total_found == total_before_now + n_results
        done_part == Append(kw.done_batches, kw.current_batch)
        status == get_status(total_found, total_requested, done_part, kw.all_batches)
        total_words_processed_so_far == SumSeqSizes(done_part)
        raised == /\ status # "finished"
                  /\ \/ total_words_processed_so_far = 0
                     \/ SumSeqSizes(kw.all_batches) = 0
                     \/ total_requested = 0
        perc_matches ==
            IF status = "finished" THEN 100000
            ELSE IF raised THEN 0
            ELSE IF total_requested < 0
                 THEN (0 - Min(total_found, total_requested) * 100000)
                          \div (0 - total_requested)
            ELSE (Min(total_found, total_requested) * 100000) \div total_requested
        sent_total ==
            IF status # "finished" /\ total_requested < total_found
            THEN total_requested ELSE total_found
    IN
    [ raised |-> raised,
      meta |-> [ status |-> status,
                 total_results_so_far |-> total_found,
                 percentage_done |-> perc_matches ],
      msg |-> [ status |-> status,
                job |-> id,
                first_job |-> kw.first_job,
                done_batches |-> done_part,
                all_batches |-> kw.all_batches,
                current_batch |-> kw.current_batch,
                total_results_so_far |-> sent_total,
                total_results_requested |-> total_requested,
                batch_matches |-> n_results,
                percentage_done |-> perc_matches,
                needed |-> kw.needed,
                page_size |-> kw.page_size,
                resume |-> kw.resume,
                full |-> kw.full,
                is_vian |-> kw.is_vian,
                no_restart |-> FALSE ] ]

----------------------------------------------------------------------------
(* QueryService *)

\* hash(query): the SQL of an iteration differs from batch to batch only
fingerprint(batch) == batch.name

\* QueryService.send_all_data: the stored stats message of the job, marked
\* no_restart.  The stored message lives as long as the job does.
send_all_data(id, job) ==
    [ query_callback(id, job).msg EXCEPT !.no_restart = TRUE ]

\* QueryService._attempt_query_from_cache
attempt_query_from_cache(hashed, kwargs, js) ==
    LET miss == [ hit |-> FALSE, outcome |-> "miss", publish |-> <<>>, jobs |-> js ]
        job == js[hashed]
        first_job_id == kwargs.first_job
    IN
    IF job.status = "absent" THEN miss
    ELSE IF first_job_id = NoJobId \/ js[first_job_id].status = "absent" THEN miss
    ELSE IF job.status # "finished" THEN miss
    ELSE IF first_job_id = hashed /\ ~kwargs.full
         THEN [ hit |-> TRUE, outcome |-> "replayed_messages",
                publish |-> << send_all_data(hashed, job) >>, jobs |-> js ]
    ELSE IF ~kwargs.full
         THEN LET cb == query_callback(hashed, job) IN
              [ hit |-> TRUE, outcome |-> "replayed_callback",
                publish |-> IF cb.raised THEN <<>> ELSE << cb.msg >>,
                jobs |-> IF cb.raised THEN js
                         ELSE [ js EXCEPT ![hashed].meta = cb.meta ] ]
    ELSE [ hit |-> TRUE, outcome |-> "cached", publish |-> <<>>, jobs |-> js ]

\* the enqueue of QueryService.query: a queued job under the fingerprint
enqueue(hashed, kwargs, js) ==
    [ js EXCEPT ![hashed] =
        [ status |-> "queued", kwargs |-> kwargs, result |-> 0, meta |-> NoMeta ] ]

\* QueryService.query
query(hashed, kwargs, cache, js) ==
    LET cached == attempt_query_from_cache(hashed, kwargs, js) IN
    IF cache /\ cached.hit THEN cached
    ELSE [ hit |-> FALSE, outcome |-> "enqueued", publish |-> <<>>,
           jobs |-> enqueue(hashed, kwargs, js) ]

\* `self.offset > 0`: the iteration hands back the previous job
hands_back_previous(self) == self.offset > 0

\* QueryIteration.submit_query
submit_query(self, cache, js) ==
    IF hands_back_previous(self)
    THEN IF self.previous = NoJobId \/ js[self.previous].status = "absent"
         THEN [ qi |-> [ self EXCEPT !.outcome = "error" ],
                jobs |-> js, publish |-> <<>> ]
         ELSE [ qi |-> [ self EXCEPT !.job_id = self.previous, !.outcome = "previous" ],
                jobs |-> js, publish |-> <<>> ]
    ELSE LET hashed == fingerprint(self.current_batch)
             res == query(hashed, Kwargs(self), cache, js)
         IN [ qi |-> [ self EXCEPT
                         !.job_id = hashed,
                         !.first_job = IF self.first_job = NoJobId
                                       THEN hashed ELSE self.first_job,
                         !.outcome = res.outcome ],
              jobs |-> res.jobs,
              publish |-> res.publish ]


----------------------------------------------------------------------------
(* Constructors of a QueryIteration *)

\* QueryIteration.from_request; req is the JSON body of POST /query
from_request(req, batches, js) ==
    LET prev == js[req.previous]
        base == NewQI(get_query_batches(batches),
                      req.total_results_requested,
                      IF req.previous # NoJobId THEN -1
                      ELSE req.total_results_requested,
                      req.page_size)
    IN [ base EXCEPT
           !.full = req.full,
           !.resume = req.resume,
           !.previous = req.previous,
           !.first_job = IF req.previous = NoJobId THEN NoJobId
                         ELSE IF prev.kwargs.first_job # NoJobId
                              THEN prev.kwargs.first_job ELSE req.previous,
           !.total_results_so_far = IF req.previous = NoJobId THEN 0
                                    ELSE prev.meta.total_results_so_far,
           !.origin = "request" ]

\* QueryIteration.from_manual; manual is the continuation descriptor
from_manual(manual, js) ==
    LET job == js[manual.job]
        done_batches == IF InSeq(manual.current_batch, manual.done_batches)
                        THEN manual.done_batches
                        ELSE Append(manual.done_batches, manual.current_batch)
        tot_req == manual.total_results_requested
        tot_so_far == manual.total_results_so_far
        needed == IF tot_req > 0 THEN tot_req - tot_so_far ELSE -1
        base == NewQI(manual.all_batches, tot_req, needed, job.kwargs.page_size)
    IN [ base EXCEPT
           !.job_id = manual.job,
           !.full = manual.full,
           !.resume = manual.resume,
           !.previous = manual.previous,
           !.first_job = manual.first_job,
           !.offset = manual.offset,
           !.total_results_so_far = tot_so_far,
           !.done_batches = done_batches,
           !.is_vian = manual.is_vian,
           !.origin = "manual" ]

----------------------------------------------------------------------------
(* Controller and listener glue (specification sections 4.6 and 4.7) *)

\* Resumption of `previous`: the iteration inherits the done batches of the
\* Logical Query (those of the previous job and the batch that job ran) and
\* the offset of the page asked for.
do_resume(self, offset, js) ==
    LET prev == js[self.previous]
        done == IF InSeq(prev.kwargs.current_batch, prev.kwargs.done_batches)
                THEN prev.kwargs.done_batches
                ELSE Append(prev.kwargs.done_batches, prev.kwargs.current_batch)
    IN [ self EXCEPT !.done_batches = done, !.offset = offset ]

\* One run of the controller on an iteration: choose the batch, then submit
\* the primary; no job is submitted when there is no batch.
run_iteration(self, cache, js) ==
    LET d == decide_batch(self)
        chosen == [ self EXCEPT
                      !.ret = d.ret,
                      !.current_batch = IF d.ret = Raise THEN None ELSE d.ret,
                      !.no_more_data = d.no_more_data,
                      !.start_query_from_sents = d.start_query_from_sents ]
    IN IF d.ret = None
       THEN [ qi |-> [ chosen EXCEPT !.outcome = "no_batch" ],
              jobs |-> js, publish |-> <<>> ]
       ELSE IF d.ret = Raise
       THEN [ qi |-> [ chosen EXCEPT !.outcome = "error" ],
              jobs |-> js, publish |-> <<>> ]
       ELSE submit_query(chosen, cache, js)

\* The continuation descriptor the listener synthesises from a `partial`
\* message: the message itself, identified with its Logical Query (the first
\* iteration's primary job), starting at the beginning of the next batch.
continuation(m) ==
    [ job |-> m.job,
      done_batches |-> m.done_batches,
      current_batch |-> m.current_batch,
      all_batches |-> m.all_batches,
      total_results_requested |-> m.total_results_requested,
      total_results_so_far |-> m.total_results_so_far,
      full |-> m.full,
      resume |-> m.resume,
      is_vian |-> m.is_vian,
      previous |-> NoJobId,
      first_job |-> IF m.first_job = NoJobId THEN m.job ELSE m.first_job,
      offset |-> 0 ]

\* the listener continues on `partial` unless the message is a replay of
\* stored messages
warrants_continuation(m) == m.status = "partial" /\ ~m.no_restart

----------------------------------------------------------------------------
(* Result Aggregator: utils._add_results and utils._union_results *)

\* A result is a list of rows (result_set_index, payload): [key, rest].  The
\* row of index 0 is the descriptor, whose payload is the list of the types of
\* the result sets; the payload of any other row is its segment id.
\* A result map is a function from result-set indices to lists.

\* largest result-set index
MaxIndex == 2

EmptyMap == << >>
Get(m, k) == IF k \in DOMAIN m THEN m[k] ELSE << >>
Put(m, k, v) == [ x \in DOMAIN m \cup {k} |-> IF x = k THEN v ELSE m[x] ]

\* Python's s[:n]
Slice(s, n) ==
    IF n >= 0 THEN SubSeq(s, 1, Min(n, Len(s)))
    ELSE SubSeq(s, 1, IF Len(s) + n > 0 THEN Len(s) + n ELSE 0)

\* [i for i, r in enumerate(res, start=1) if r.get("type") == "plain"]
plain_indices(desc) == { i \in 1..Len(desc) : desc[i] = "plain" }

\* the plain indices according to the first descriptor row of the result
get_kwics(result) ==
    LET d == { i \in 1..Len(result) : result[i].key = 0 } IN
    IF d = {} THEN {}
    ELSE plain_indices(result[CHOOSE i \in d : \A j \in d : i <= j].rest)

\* _make_kwic_line: the sentence of the segment spliced into the row (the
\* sentence job returns the sentence of every segment it is asked for)
make_kwic_line(rest) == << rest, "sent" >>

\* `restart is False`
NoRestart == -1

\* _add_results, the three tests that leave a plain row out while hydrating;
\* `count` is 0 throughout the loop
left_out(a, n_key, in_bundle) ==
    LET count == 0 IN
    \/ ~a.unlimited /\ a.offset # 0 /\ count < a.offset
    \/ a.restart # NoRestart /\ n_key < a.restart
    \/ ~a.unlimited /\ a.so_far + in_bundle >= a.total_requested

\* _add_results, the loop over the rows from row i
RECURSIVE add_rows(_, _, _, _, _)
add_rows(result, i, a, bundle, counts) ==
    IF i > Len(result) THEN [ bundle |-> bundle, counts |-> counts ]
    ELSE LET key == result[i].key
             rest == result[i].rest
             counted == [ counts EXCEPT ![key] = @ + 1 ]
         IN
         IF key = 0 THEN add_rows(result, i + 1, a, Put(bundle, 0, rest), counts)
         ELSE IF key \in a.kwics /\ ~a.kwic
              THEN add_rows(result, i + 1, a, bundle, counted)
         ELSE IF key \in a.kwics
              THEN IF left_out(a, counted[key], Len(Get(bundle, key)))
                   THEN add_rows(result, i + 1, a, bundle, counted)
                   ELSE add_rows(result, i + 1, a,
                                 Put(bundle, key,
                                     Append(Get(bundle, key), make_kwic_line(rest))),
                                 counted)
         ELSE IF a.kwic THEN add_rows(result, i + 1, a, bundle, counts)
         ELSE add_rows(result, i + 1, a,
                       Put(bundle, key, Append(Get(bundle, key), rest)), counts)

\* utils._add_results (result_sets is not passed by the callbacks): the bundle,
\* n_results, and whether list(kwics)[0] raised
add_results(result, so_far, unlimited, offset, restart, total_requested, kwic) ==
    LET kwics == get_kwics(result)
        a == [ so_far |-> so_far, unlimited |-> unlimited, offset |-> offset,
               restart |-> restart, total_requested |-> total_requested,
               kwic |-> kwic, kwics |-> kwics ]
        r == add_rows(result, 1, a, EmptyMap, [ k \in 1..MaxIndex |-> 0 ])
        over == { k \in kwics \cap DOMAIN r.bundle :
                    Len(r.bundle[k]) > total_requested }
    IN
    [ raised |-> over = {} /\ kwics = {},
      bundle |-> [ k \in DOMAIN r.bundle |->
                     IF k \in over THEN Slice(r.bundle[k], total_requested)
                     ELSE r.bundle[k] ],
      n_results |-> IF over # {} THEN total_requested
                    ELSE IF kwics = {} THEN 0
                    ELSE r.counts[CHOOSE k \in kwics : \A j \in kwics : k <= j] ]

\* the union taking the incoming descriptor in place of the one it has
union_key_replacing(so_far, k, v) ==
    IF k = 0 THEN v ELSE Get(so_far, k) \o v

\* _union_results, one (k, v) of incoming: the descriptor is kept once it is
\* there; every other index is extended
union_key(so_far, k, v) ==
    IF k = 0 THEN (IF 0 \in DOMAIN so_far THEN so_far[0] ELSE v)
    ELSE Get(so_far, k) \o v

\* utils._union_results
union_results(so_far, incoming) ==
    [ k \in DOMAIN so_far \cup DOMAIN incoming |->
        IF k \in DOMAIN incoming THEN union_key(so_far, k, incoming[k])
        ELSE so_far[k] ]

\* callbacks._query, the part that aggregates: kw is job.kwargs, restart the
\* hit_limit of the call and kw_total the total_results_requested of the call
query_results(kw, result, restart, kw_total) ==
    LET total_before_now == kw.total_results_so_far
        total_requested == IF restart = NoRestart
                           THEN kw.total_results_requested ELSE kw_total
        offset == IF restart # NoRestart THEN restart ELSE 0
        needed == IF restart = NoRestart THEN kw.needed
                  ELSE total_requested - total_before_now
        unlimited == needed \in NoQuota
        added == add_results(result, total_before_now, unlimited, offset,
                             restart, total_requested, FALSE)
        total_found == total_before_now + added.n_results
        results_so_far == union_results(kw.existing_results, added.bundle)
        done_part == Append(kw.done_batches, kw.current_batch)
        status == get_status(total_found, total_requested, done_part, kw.all_batches)
    IN
    [ raised |-> added.raised \/ 0 \notin DOMAIN results_so_far,
      new_res |-> added.bundle,
      n_results |-> added.n_results,
      results_so_far |-> results_so_far,
      status |-> status,
      done_part |-> done_part,
      meta_total |-> total_found,
      args |-> [ so_far |-> total_before_now, unlimited |-> unlimited,
                 offset |-> offset, restart |-> restart,
                 total_requested |-> total_requested ],
      sent_total |-> IF status # "finished" /\ total_requested < total_found
                     THEN total_requested ELSE total_found ]

\* callbacks._sentences, the part that aggregates: the result of the primary
\* job hydrated with its _args, and the union into the base job's _sentences
sentences_results(depended, base_sentences) ==
    LET a == depended.args
        added == add_results(depended.result, a.so_far, a.unlimited, a.offset,
                             a.restart, a.total_requested, TRUE)
    IN [ new_res |-> added.bundle,
         results_so_far |-> union_results(base_sentences, added.bundle) ]

\* the Logical Query as the Result Aggregator sees it, before its first
\* iteration: the fields of the descriptor handed from one iteration to the
\* next, the base job's _sentences, the primary results so far, whether a call
\* carried a hit_limit, the descriptors of the messages published and the
\* arguments of the latest union
NewAgg(tot_req, full) ==
    [ total_results_requested |-> tot_req,
      full |-> full,
      needed |-> tot_req,
      done_batches |-> << >>,
      existing_results |-> EmptyMap,
      total_results_so_far |-> 0,
      status |-> "none",
      meta_total |-> 0,
      returned |-> << >>,
      depended |-> << >>,
      hydrated |-> FALSE,
      restarted |-> FALSE,
      sentences |-> EmptyMap,
      published |-> << >>,
      union |-> [ so_far |-> EmptyMap, incoming |-> EmptyMap, out |-> EmptyMap ] ]

NoAgg == NewAgg(0, FALSE)

\* nothing stored, no callback in progress, no sentence or metadata job,
\* nothing canceled
SideInit ==
    /\ store = << >>
    /\ workers = << >>
    /\ sents = << >>
    /\ canceled = << >>
    /\ commands = << >>

----------------------------------------------------------------------------
(* State machine *)

JobIds == { b.name : b \in Range(all_batches) }

Init ==
    /\ \E c \in Corpora : all_batches = c
    /\ use_cache \in BOOLEAN
    /\ page_size \in PageSizes
    /\ db \in [ { b.name : b \in Range(all_batches) } -> RowCounts ]
    /\ qi = NewQI(<<>>, 0, 0, 0)
    /\ jobs = [ id \in { b.name : b \in Range(all_batches) } \cup {NoJobId} |-> NoJob ]
    /\ channel = <<>>
    /\ client = NoMsg
    /\ nreq = 0
    /\ agg = NoAgg
    /\ SideInit

\* POST /query creating the Logical Query
NewQuery(tot_req, full) ==
    /\ nreq = 0
    /\ LET req == [ total_results_requested |-> tot_req, full |-> full,
                    resume |-> FALSE, previous |-> NoJobId,
                    page_size |-> page_size ]
           res == run_iteration(from_request(req, all_batches, jobs), use_cache, jobs)
       IN /\ qi' = res.qi
          /\ jobs' = res.jobs
          /\ channel' = channel \o res.publish
    /\ nreq' = nreq + 1
    /\ UNCHANGED <<all_batches, use_cache, page_size, db, client, agg, side_vars>>

\* POST /query resuming the query from the last job the client heard of
ResumeQuery(tot_req, full, offset) ==
    /\ nreq > 0
    /\ nreq < MaxRequests
    /\ client # NoMsg
    /\ jobs[client.job].status = "finished"
    /\ LET req == [ total_results_requested |-> tot_req, full |-> full,
                    resume |-> TRUE, previous |-> client.job,
                    page_size |-> page_size ]
           made == do_resume(from_request(req, all_batches, jobs), offset, jobs)
           res == run_iteration(made, use_cache, jobs)
       IN /\ qi' = res.qi
          /\ jobs' = res.jobs
          /\ channel' = channel \o res.publish
    /\ nreq' = nreq + 1
    /\ UNCHANGED <<all_batches, use_cache, page_size, db, client, agg, side_vars>>

\* The worker runs a queued primary job and then its success callback _query
Worker(id) ==
    /\ jobs[id].status = "queued"
    /\ Len(jobs[id].kwargs.done_batches) < MaxDone
    /\ LET done == [ jobs[id] EXCEPT !.status = "finished", !.result = db[id] ]
           cb == query_callback(id, done)
       IN /\ jobs' = [ jobs EXCEPT ![id] =
                         IF cb.raised THEN done ELSE [ done EXCEPT !.meta = cb.meta ] ]
          /\ channel' = IF cb.raised THEN channel ELSE Append(channel, cb.msg)
    /\ UNCHANGED <<all_batches, use_cache, page_size, db, qi, client, nreq, agg, side_vars>>

\* The listener forwards a message that warrants no continuation
Forward ==
    /\ channel # <<>>
    /\ ~warrants_continuation(Head(channel))
    /\ client' = Head(channel)
    /\ channel' = Tail(channel)
    /\ UNCHANGED <<all_batches, use_cache, page_size, db, qi, jobs, nreq, agg, side_vars>>

\* The listener forwards a `partial` message and starts the next iteration
Continue ==
    /\ channel # <<>>
    /\ warrants_continuation(Head(channel))
    /\ LET m == Head(channel)
           res == run_iteration(from_manual(continuation(m), jobs), use_cache, jobs)
       IN /\ client' = m
          /\ qi' = res.qi
          /\ jobs' = res.jobs
          /\ channel' = Tail(channel) \o res.publish
    /\ UNCHANGED <<all_batches, use_cache, page_size, db, nreq, agg, side_vars>>

Next ==
    \/ \E q \in Quotas, f \in BOOLEAN : NewQuery(q, f)
    \/ \E q \in Quotas, f \in BOOLEAN, o \in 0..MaxOffset : ResumeQuery(q, f, o)
    \/ \E id \in JobIds : Worker(id)
    \/ Forward
    \/ Continue

Spec == Init /\ [][Next]_vars

TypeOK ==
    /\ nreq \in 0..MaxRequests
    /\ Len(channel) <= 3


----------------------------------------------------------------------------
(* Two requests with the same query: the second one is a fresh request, not *)
(* a resumption, and meets the jobs of the first in the cache               *)

\* POST /query with the query of the first request again (the same SQL for
\* every batch), as a new Logical Query: no `previous`, no resume
SecondQuery(tot_req, full) ==
    /\ nreq > 0
    /\ nreq < MaxRequests
    /\ LET req == [ total_results_requested |-> tot_req, full |-> full,
                    resume |-> FALSE, previous |-> NoJobId,
                    page_size |-> page_size ]
           res == run_iteration(from_request(req, all_batches, jobs), use_cache, jobs)
       IN /\ qi' = res.qi
          /\ jobs' = res.jobs
          /\ channel' = channel \o res.publish
    /\ nreq' = nreq + 1
    /\ UNCHANGED <<all_batches, use_cache, page_size, db, client, agg, side_vars>>

CacheNext ==
    \/ \E q \in Quotas, f \in BOOLEAN : NewQuery(q, f)
    \/ \E q \in Quotas, f \in BOOLEAN : SecondQuery(q, f)
    \/ \E id \in JobIds : Worker(id)
    \/ Forward
    \/ Continue

CacheSpec == Init /\ [][CacheNext]_vars

----------------------------------------------------------------------------
(* The Batch Selector on its own: decide_batch applied to one iteration *)

\* a corpus that admits only one batch
SingleCorpora == { << Batch("vian0", 200) >> }

\* the lists of done batches of a corpus: each batch at most once, any order
DoneLists(all) ==
    { s \in UNION { [1..n -> Range(all)] : n \in 0..Len(all) } :
        \A i, j \in 1..Len(s) : s[i] = s[j] => i = j }

\* an iteration as its constructor leaves it: `needed` is -1 on a request that
\* names a previous job (resume), the quota on a first request, and
\* quota - so_far (or -1) on a manual continuation
SelectorInput(all, done, resume, full, tot_req, so_far, psize, vian) ==
    [ NewQI(all, tot_req,
            IF resume THEN -1
            ELSE IF done = <<>> THEN tot_req
            ELSE IF tot_req > 0 THEN tot_req - so_far ELSE -1,
            psize)
        EXCEPT !.done_batches = done,
               !.resume = resume,
               !.full = full,
               !.total_results_so_far = so_far,
               !.is_vian = vian,
               !.origin = "input" ]

SelectorInputs ==
    { SelectorInput(get_query_batches(c), done, resume, full, tot_req, so_far,
                    psize, vian) :
        c \in Corpora \cup SingleCorpora,
        done \in UNION { DoneLists(get_query_batches(d)) : d \in Corpora \cup SingleCorpora },
        resume \in BOOLEAN, full \in BOOLEAN, tot_req \in Quotas,
        so_far \in RowCounts, psize \in PageSizes, vian \in BOOLEAN }

\* the inputs that are consistent: done batches of the same corpus, no result
\* before a batch is done, the single-batch flag on single-batch corpora only
SelectorInit ==
    /\ qi \in { x \in SelectorInputs :
                  /\ Range(x.done_batches) \subseteq Range(x.all_batches)
                  /\ x.done_batches = <<>> => x.total_results_so_far = 0
                  /\ x.is_vian => Len(x.all_batches) = 1 }
    /\ all_batches = qi.all_batches
    /\ use_cache = FALSE
    /\ page_size = qi.page_size
    /\ db = [ n \in { b.name : b \in Range(all_batches) } |-> 0 ]
    /\ jobs = [ id \in { b.name : b \in Range(all_batches) } \cup {NoJobId} |-> NoJob ]
    /\ channel = <<>>
    /\ client = NoMsg
    /\ nreq = 0
    /\ agg = NoAgg
    /\ SideInit

\* decide_batch is called on the iteration; its result and the attributes it
\* sets are recorded in the iteration
SelectBatch ==
    /\ qi.origin = "input"
    /\ LET d == decide_batch(qi) IN
       qi' = [ qi EXCEPT !.ret = d.ret,
                         !.no_more_data = d.no_more_data,
                         !.start_query_from_sents = d.start_query_from_sents,
                         !.origin = "selector" ]
    /\ UNCHANGED <<all_batches, use_cache, page_size, db, jobs, channel, client, nreq, agg, side_vars>>

SelectorNext == SelectBatch

SelectorSpec == SelectorInit /\ [][SelectorNext]_vars

----------------------------------------------------------------------------
(* The Result Aggregator on its own: the primary and the sentence callbacks *)
(* of the iterations of one Logical Query                                   *)

\* the batches of the corpus, numbered
AggAllBatches == [ i \in 1..MaxBatches |-> Batch("batch", i) ]

\* total_results_requested of the query (-1: unlimited)
AggQuotas == {-1, 1, 3}

\* the descriptors a primary job can answer with
Descriptors == { << "plain", "plain" >>, << "plain", "stats" >> }

\* the result sets of the rows a primary job returns, in order
KeyLists == UNION { [1..n -> 1..MaxIndex] : n \in 0..MaxRows }

\* the rows of batch number b: the descriptor, then one row per key with a
\* segment id of its own
BatchResult(b, desc, keys) ==
    << [ key |-> 0, rest |-> desc ] >>
        \o [ i \in 1..Len(keys) |-> [ key |-> keys[i], rest |-> 10 * b + i ] ]

AggInit ==
    /\ agg \in { NewAgg(q, f) : q \in AggQuotas, f \in BOOLEAN }
    /\ all_batches = << >>
    /\ use_cache = FALSE
    /\ page_size = 0
    /\ db = << >>
    /\ qi = NewQI(<<>>, 0, 0, 0)
    /\ jobs = [ id \in {NoJobId} |-> NoJob ]
    /\ channel = <<>>
    /\ client = NoMsg
    /\ nreq = 0
    /\ SideInit

\* The descriptor of the next iteration, which the listener makes from the
\* message of the primary callback: the done batches, the cumulative result
\* map and total_results_so_far of the message, and from_manual's `needed`
next_iteration(a, q) ==
    [ a EXCEPT
        !.done_batches = q.done_part,
        !.existing_results = q.results_so_far,
        !.total_results_so_far = q.sent_total,
        !.needed = IF a.total_results_requested > 0
                   THEN a.total_results_requested - q.sent_total
                   ELSE -1 ]

\* The primary job of the next batch returns `result` and _query runs on it;
\* the listener continues a query that is `partial`
AggQuery(desc, keys, restart) ==
    /\ agg.status \in {"none", "partial"}
    /\ Len(agg.done_batches) < MaxBatches
    /\ LET b == Len(agg.done_batches) + 1
           result == BatchResult(b, desc, keys)
           kw == [ total_results_so_far |-> agg.total_results_so_far,
                   total_results_requested |-> agg.total_results_requested,
                   needed |-> agg.needed,
                   existing_results |-> agg.existing_results,
                   done_batches |-> agg.done_batches,
                   current_batch |-> AggAllBatches[b],
                   all_batches |-> AggAllBatches ]
           q == query_results(kw, result, restart, agg.total_results_requested)
       IN /\ ~q.raised
          /\ agg' = [ next_iteration(agg, q) EXCEPT
                        !.status = q.status,
                        !.meta_total = q.meta_total,
                        !.returned = Append(@, result),
                        !.depended = << [ result |-> result, args |-> q.args ] >>,
                        !.hydrated = FALSE,
                        !.restarted = @ \/ restart # NoRestart,
                        !.published = Append(@, [ action |-> "query",
                                                  result_sets |-> q.results_so_far[0] ]),
                        !.union = [ so_far |-> kw.existing_results,
                                    incoming |-> q.new_res,
                                    out |-> q.results_so_far ] ]
    /\ UNCHANGED <<all_batches, use_cache, page_size, db, qi, jobs, channel, client, nreq, side_vars>>

\* The sentence job of the latest iteration finishes and _sentences runs
AggSentences ==
    /\ agg.depended # << >>
    /\ ~agg.hydrated
    /\ LET r == sentences_results(agg.depended[1], agg.sentences) IN
       agg' = [ agg EXCEPT
                  !.sentences = r.results_so_far,
                  !.hydrated = TRUE,
                  !.published = Append(@, [ action |-> "sentences",
                                            result_sets |-> r.results_so_far[0] ]),
                  !.union = [ so_far |-> agg.sentences,
                              incoming |-> r.new_res,
                              out |-> r.results_so_far ] ]
    /\ UNCHANGED <<all_batches, use_cache, page_size, db, qi, jobs, channel, client, nreq, side_vars>>

AggNext ==
    \/ \E desc \in Descriptors, keys \in KeyLists,
          restart \in {NoRestart} \cup 1..MaxRestart : AggQuery(desc, keys, restart)
    \/ AggSentences

AggSpec == AggInit /\ [][AggNext]_vars

----------------------------------------------------------------------------
(* The replay of a finished primary job under the caller's post-processing  *)
(* descriptor: QueryService._attempt_query_from_cache on a cache hit        *)

\* A post-processing descriptor maps result-set indices to filters; the filter
\* of the model keeps the rows that are at least its threshold.  The empty
\* descriptor filters nothing.
PostProcesses == { << >>, (2 :> 12), (2 :> 13) }

\* convert._apply_filters: the descriptor applied as a filter per index
\* (specification 4.2, step 5)
apply_filters(res, pps) ==
    [ k \in DOMAIN res |->
        IF k # 0 /\ k \in DOMAIN pps
        THEN SelectSeq(res[k], LAMBDA r : r >= pps[k])
        ELSE res[k] ]

\* the id under which the message of a primary job is stored
StatsMessage == "stats"

\* The message the primary callback stored for send_all_data (specification
\* 4.5): the cumulative result map, filtered under the descriptor of the job
\* and in full, and that descriptor
stored_message(job) ==
    LET q == query_results(job.kwargs, job.result, NoRestart,
                           job.kwargs.total_results_requested)
    IN [ result |-> apply_filters(q.results_so_far, job.kwargs.post_processes),
         full_result |-> q.results_so_far,
         post_processes |-> job.kwargs.post_processes,
         status |-> q.status,
         user |-> job.kwargs.user,
         room |-> job.kwargs.room,
         no_restart |-> FALSE ]

\* QueryService.send_all_data, the stats message: the stored payload with the
\* user and the room of the call, its result filtered anew when the descriptor
\* in force is not empty and differs from the stored one
send_all_data_payload(payload, kwargs) ==
    LET pps == IF kwargs.post_processes # << >> THEN kwargs.post_processes
               ELSE payload.post_processes
        filtered == apply_filters(payload.full_result, pps)
    IN [ payload EXCEPT
           !.user = kwargs.user,
           !.room = kwargs.room,
           !.result = IF pps # << >> /\ pps # payload.post_processes
                      THEN filtered ELSE @,
           !.no_restart = TRUE ]

\* the ids under which the messages of the sentence and the metadata job of
\* a primary job are stored
SentMessage == "sent"
MetaMessage == "meta"

\* the message a sentence or metadata callback stored for send_all_data
stored_sentences(action, job) ==
    [ action |-> action,
      user |-> job.kwargs.user,
      room |-> job.kwargs.room,
      no_update_progress |-> FALSE,
      no_restart |-> FALSE ]

\* QueryService.send_all_data, a sentence or metadata message: the stored
\* payload with the user and the room of the call
send_all_data_sentences(payload, kwargs) ==
    [ payload EXCEPT !.user = kwargs.user,
                     !.room = kwargs.room,
                     !.no_update_progress = TRUE,
                     !.no_restart = TRUE ]

\* the tasks of send_all_data: the publish of the stats message and of each
\* sentence and metadata message that is in the cache
send_all_data_tasks(job, kwargs, st) ==
    LET msgs == job.meta.sent_job_ws_messages \o job.meta.meta_job_ws_messages
        found == SelectSeq(msgs, LAMBDA m : m \in DOMAIN st)
    IN << send_all_data_payload(st[job.meta.latest_stats_message], kwargs) >>
       \o [ i \in 1..Len(found) |-> send_all_data_sentences(st[found[i]], kwargs) ]

\* send_all_data with each publish awaited where its task is made
send_all_data_eager(job, kwargs, st) ==
    LET msgs == job.meta.sent_job_ws_messages \o job.meta.meta_job_ws_messages
    IN IF job.meta.latest_stats_message \notin DOMAIN st
       THEN [ ok |-> FALSE, publish |-> << >> ]
       ELSE [ ok |-> \A i \in 1..Len(msgs) : msgs[i] \in DOMAIN st,
              publish |-> send_all_data_tasks(job, kwargs, st) ]

\* QueryService.send_all_data: False and nothing published when the stats
\* message has expired; the tasks are awaited, and so published, only when no
\* sentence or metadata message has expired
send_all_data_stored(job, kwargs, st) ==
    LET msgs == job.meta.sent_job_ws_messages \o job.meta.meta_job_ws_messages
        failed == \E i \in 1..Len(msgs) : msgs[i] \notin DOMAIN st
    IN IF job.meta.latest_stats_message \notin DOMAIN st
       THEN [ ok |-> FALSE, publish |-> << >> ]
       ELSE IF ~failed
       THEN [ ok |-> TRUE, publish |-> send_all_data_tasks(job, kwargs, st) ]
       ELSE [ ok |-> FALSE, publish |-> << >> ]

\* callbacks._query called by the cache lookup: the message is the job's
\* kwargs with the cumulative result map; from_memory and the post_processes
\* of the call are not looked at
query_from_memory(job, kwargs) ==
    LET q == query_results(job.kwargs, job.result, NoRestart,
                           job.kwargs.total_results_requested)
    IN [ result |-> q.results_so_far,
         full_result |-> q.results_so_far,
         post_processes |-> job.kwargs.post_processes,
         status |-> q.status,
         user |-> job.kwargs.user,
         room |-> job.kwargs.room,
         no_restart |-> FALSE ]

\* the result maps an earlier iteration can hand on
ExistingResults == { EmptyMap, (0 :> << "plain", "stats" >>) @@ (2 :> << 11, 13 >>) }

\* the id of the one primary job of the replay
ReplayJob == "job"

\* a finished primary job: its kwargs, the rows it returned, and the id of
\* its stored message
FinishedJob(desc, keys, pps, existing, tot_req) ==
    [ status |-> "finished",
      kwargs |-> [ total_results_so_far |-> 0,
                   total_results_requested |-> tot_req,
                   needed |-> tot_req,
                   existing_results |-> existing,
                   done_batches |-> << >>,
                   current_batch |-> AggAllBatches[1],
                   all_batches |-> AggAllBatches,
                   post_processes |-> pps,
                   user |-> User,
                   room |-> Room ],
      result |-> BatchResult(1, desc, keys),
      meta |-> [ latest_stats_message |-> StatsMessage,
                 status |-> "none",
                 total_results_so_far |-> 0 ] ]

\* the messages the callbacks of a primary job and of its sentence and
\* metadata job stored
StoredMessages(job) ==
    (StatsMessage :> stored_message(job))
    @@ (SentMessage :> stored_sentences("sentences", job))
    @@ (MetaMessage :> stored_sentences("meta", job))

\* a finished job in the cache, submitted for some user and room; its meta
\* names its stored message and those of its sentence and metadata job, if
\* they have run; each stored message is there or has expired
ReplayInit ==
    /\ \E desc \in Descriptors, keys \in KeyLists, pps \in PostProcesses,
          existing \in ExistingResults, user \in JobUsers, room \in JobRooms,
          sent \in { << >>, << SentMessage >> }, meta \in { << >>, << MetaMessage >> } :
          LET job == FinishedJob(desc, keys, pps, existing, -1) IN
          jobs = (ReplayJob :>
                    [ job EXCEPT !.kwargs.user = user,
                                 !.kwargs.room = room,
                                 !.meta = [ sent_job_ws_messages |-> sent,
                                            meta_job_ws_messages |-> meta ] @@ @ ])
    /\ \E present \in SUBSET {StatsMessage, SentMessage, MetaMessage} :
          store = [ m \in present |-> StoredMessages(jobs[ReplayJob])[m] ]
    /\ all_batches = AggAllBatches
    /\ use_cache = TRUE
    /\ page_size = 0
    /\ db = << >>
    /\ qi = NewQI(<<>>, 0, 0, 0)
    /\ channel = << >>
    /\ client = NoMsg
    /\ nreq = 0
    /\ agg = NoAgg
    /\ workers = << >>
    /\ sents = << >>
    /\ canceled = << >>
    /\ commands = << >>

\* A request without the full flag hits the finished job: the stored message
\* is sent if the job is the first of its query and the message is there, and
\* the primary callback is called on the job otherwise
ReplayFromCache(pps, is_first, user, room) ==
    /\ channel = << >>
    /\ LET job == jobs[ReplayJob]
           kwargs == [ post_processes |-> pps, full |-> FALSE,
                       user |-> user, room |-> room ]
           success == is_first /\ send_all_data_stored(job, kwargs, store).ok
       IN /\ channel' =
                 (IF is_first THEN send_all_data_stored(job, kwargs, store).publish
                  ELSE << >>)
                 \o (IF success THEN << >> ELSE << query_from_memory(job, kwargs) >>)
          /\ qi' = [ qi EXCEPT !.post_processes = pps,
                               !.user = user,
                               !.room = room,
                               !.job_id = ReplayJob,
                               !.first_job = IF is_first THEN ReplayJob ELSE "other",
                               !.origin = "request",
                               !.outcome = IF success
                                           THEN "replayed_messages"
                                           ELSE "replayed_callback" ]
    /\ UNCHANGED <<all_batches, use_cache, page_size, db, jobs, client, nreq, agg, side_vars>>

ReplayNext ==
    \E pps \in PostProcesses, is_first \in BOOLEAN, user \in JobUsers, room \in JobRooms :
        ReplayFromCache(pps, is_first, user, room)

ReplaySpec == ReplayInit /\ [][ReplayNext]_vars

----------------------------------------------------------------------------
(* The primary callback as a function of the Job object it is handed *)

\* callbacks._query, percentage_done in thousandths of a percent
percentage_done(status, total_found, total_requested) ==
    IF status = "finished" THEN 100000
    ELSE IF total_requested < 0
         THEN (0 - Min(total_found, total_requested) * 100000) \div (0 - total_requested)
    ELSE (Min(total_found, total_requested) * 100000) \div total_requested

\* callbacks._query on a Job object: the content of the message it publishes
query_message(job) ==
    LET kw == job.kwargs
        q == query_results(kw, job.result, NoRestart, kw.total_results_requested)
    IN [ status |-> q.status,
         done_batches |-> q.done_part,
         total_results_so_far |-> q.sent_total,
         percentage_done |-> percentage_done(q.status, q.meta_total,
                                             kw.total_results_requested),
         result |-> q.results_so_far ]

\* callbacks._query on a Job object: the kwargs of the object after the call.
\* done_part is job.kwargs["done_batches"] itself and is appended to; the
\* lists of results_so_far are those of job.kwargs["existing_results"], which
\* _union_results extends in place
query_kwargs_after(job) ==
    LET kw == job.kwargs
        q == query_results(kw, job.result, NoRestart, kw.total_results_requested)
    IN [ kw EXCEPT
           !.done_batches = Append(@, kw.current_batch),
           !.existing_results =
               [ k \in DOMAIN @ |->
                   IF k # 0 /\ k \in DOMAIN q.new_res THEN @[k] \o q.new_res[k]
                   ELSE @[k] ] ]

\* a primary job has run and its callback has not: the job is in the cache
HandlerInit ==
    /\ \E desc \in Descriptors, keys \in KeyLists, existing \in ExistingResults,
          tot_req \in AggQuotas :
          jobs = (ReplayJob :> FinishedJob(desc, keys, << >>, existing, tot_req))
    /\ all_batches = AggAllBatches
    /\ use_cache = TRUE
    /\ page_size = 0
    /\ db = << >>
    /\ qi = NewQI(<<>>, 0, 0, 0)
    /\ channel = << >>
    /\ client = NoMsg
    /\ nreq = 0
    /\ agg = NoAgg
    /\ SideInit

\* Job.fetch: a Job object with the kwargs, result and meta of the cache
FetchJob ==
    /\ Len(workers) < MaxObjects
    /\ workers' = Append(workers, [ job |-> jobs[ReplayJob], published |-> << >> ])
    /\ UNCHANGED <<all_batches, use_cache, page_size, db, qi, jobs, channel, client,
                   nreq, agg, store, sents, canceled, commands>>

\* _query is called on Job object w with the result of the job: it saves the
\* meta and publishes its message
CallQuery(w) ==
    /\ w \in 1..Len(workers)
    /\ Len(workers[w].published) < MaxCalls
    /\ LET job == workers[w].job
           msg == query_message(job)
           q == query_results(job.kwargs, job.result, NoRestart,
                              job.kwargs.total_results_requested)
           meta == [ job.meta EXCEPT !.status = q.status,
                                     !.total_results_so_far = q.meta_total ]
       IN /\ ~q.raised
          /\ workers' = [ workers EXCEPT
                            ![w].job.kwargs = query_kwargs_after(job),
                            ![w].job.meta = meta,
                            ![w].published = Append(@, msg) ]
          /\ jobs' = [ jobs EXCEPT ![ReplayJob].meta = meta ]
          /\ channel' = Append(channel, msg)
    /\ UNCHANGED <<all_batches, use_cache, page_size, db, qi, client, nreq, agg,
                   store, sents, canceled, commands>>

HandlerNext ==
    \/ FetchJob
    \/ \E w \in 1..MaxObjects : CallQuery(w)

HandlerSpec == HandlerInit /\ [][HandlerNext]_vars

----------------------------------------------------------------------------
(* The sentence callback, step by step: two sentence jobs of one Logical     *)
(* Query whose callbacks merge into the meta of the same base job            *)

\* `"total_results_requested" in kwargs` is false: the callback was called by
\* the worker, which hands it no kwargs
NoTotal == -2

\* callbacks._sentences, the arguments of the hydration: the _args of the
\* primary job, with start_at (None) and total_results_requested of the call
\* in place of offset and total_requested when the call carries them
sentences_args(a, total_requested) ==
    IF total_requested = NoTotal THEN a
    ELSE [ a EXCEPT !.offset = 0, !.total_requested = total_requested ]

\* the ids of the two primary jobs and of the sentence jobs
FirstJob == "first"
SecondJob == "second"
SentIds == << "sent1", "sent2" >>

\* the meta of a primary job after its callback, as far as _sentences reads
\* and writes it
PrimaryMeta(job, sentences) ==
    [ args |-> query_results(job.kwargs, job.result, NoRestart,
                             job.kwargs.total_results_requested).args,
      sentences |-> sentences,
      associated |-> NoJobId,
      latest_sentences |-> NoJobId ]

\* the base job's _sentences before the two callbacks: none, or the rows of
\* an earlier sentence job
BaseSentences == { EmptyMap, (0 :> << "plain", "plain" >>) @@ (1 :> << << 1, "sent" >> >>) }

\* the callback of sentence job number s before its first step
NewCallback(s, depends_on, total) ==
    [ pc |-> "start",
      job |-> [ id |-> SentIds[s], base |-> FirstJob, depends_on |-> depends_on ],
      total_results_requested |-> total,
      base |-> PrimaryMeta(FinishedJob(<< >>, << >>, << >>, EmptyMap, -1), EmptyMap),
      depended |-> FinishedJob(<< >>, << >>, << >>, EmptyMap, -1),
      new_res |-> EmptyMap,
      read |-> EmptyMap,
      written |-> EmptyMap ]

\* the two primary jobs are finished and their callbacks have run; two
\* sentence jobs have finished and their callbacks are about to run, each in a
\* process of its own: in a worker, or in the server on a cache hit
MergeInit ==
    /\ \E desc \in Descriptors, keys \in KeyLists, tot_req \in AggQuotas,
          sentences \in BaseSentences :
          LET first == FinishedJob(desc, keys, << >>, EmptyMap, tot_req)
              q == query_results(first.kwargs, first.result, NoRestart, tot_req)
              second == [ first EXCEPT
                            !.kwargs.done_batches = q.done_part,
                            !.kwargs.current_batch = AggAllBatches[2],
                            !.kwargs.total_results_so_far = q.sent_total,
                            !.kwargs.needed = IF tot_req > 0 THEN tot_req - q.sent_total
                                              ELSE -1,
                            !.result = BatchResult(2, desc, keys) ]
          IN jobs = (FirstJob :> [ first EXCEPT !.meta = PrimaryMeta(first, sentences) ])
                    @@ (SecondJob :> [ second EXCEPT !.meta = PrimaryMeta(second, EmptyMap) ])
    /\ \E dep \in {FirstJob, SecondJob}, t1, t2 \in {NoTotal} \cup AggQuotas :
          workers = << NewCallback(1, FirstJob, t1), NewCallback(2, dep, t2) >>
    /\ all_batches = AggAllBatches
    /\ use_cache = TRUE
    /\ page_size = 0
    /\ db = << >>
    /\ qi = NewQI(<<>>, 0, 0, 0)
    /\ channel = << >>
    /\ client = NoMsg
    /\ nreq = 0
    /\ agg = NoAgg
    /\ store = << >>
    /\ sents = << >>
    /\ canceled = << >>
    /\ commands = << >>

\* _sentences, `base = Job.fetch(job.kwargs["base"])`
FetchBase(s) ==
    /\ workers[s].pc = "start"
    /\ workers' = [ workers EXCEPT ![s].pc = "base",
                                   ![s].base = jobs[workers[s].job.base].meta ]
    /\ UNCHANGED <<all_batches, use_cache, page_size, db, qi, jobs, channel, client,
                   nreq, agg, store, sents, canceled, commands>>

\* _sentences, `depended = Job.fetch(depends_on)`
FetchDepended(s) ==
    /\ workers[s].pc = "base"
    /\ workers' = [ workers EXCEPT ![s].pc = "depended",
                                   ![s].depended = jobs[workers[s].job.depends_on] ]
    /\ UNCHANGED <<all_batches, use_cache, page_size, db, qi, jobs, channel, client,
                   nreq, agg, store, sents, canceled, commands>>

\* _sentences, `depended.save_meta()` with the associated job set
SaveDepended(s) ==
    /\ workers[s].pc = "depended"
    /\ LET w == workers[s]
           meta == [ w.depended.meta EXCEPT
                       !.associated = IF @ = NoJobId THEN w.job.id ELSE @ ]
       IN /\ jobs' = [ jobs EXCEPT ![w.job.depends_on].meta = meta ]
          /\ workers' = [ workers EXCEPT ![s].pc = "saved", ![s].depended.meta = meta ]
    /\ UNCHANGED <<all_batches, use_cache, page_size, db, qi, channel, client,
                   nreq, agg, store, sents, canceled, commands>>

\* the merge that extends the rows of the base by the rows of the job
merge(base_sentences, depended, total) ==
    sentences_results([ result |-> depended.result,
                        args |-> sentences_args(depended.meta.args, total) ],
                      base_sentences)

\* _sentences, the hydration, the union into the _sentences of the base as
\* fetched, `base.save_meta()` and the message
SaveBase(s) ==
    /\ workers[s].pc = "saved"
    /\ LET w == workers[s]
           r == merge(w.base.sentences, w.depended, w.total_results_requested)
           meta == [ w.base EXCEPT !.latest_sentences = w.job.id,
                                   !.sentences = r.results_so_far ]
       IN /\ jobs' = [ jobs EXCEPT ![w.job.base].meta = meta ]
          /\ workers' = [ workers EXCEPT ![s].pc = "done",
                                         ![s].base = meta,
                                         ![s].new_res = r.new_res,
                                         ![s].read = w.base.sentences,
                                         ![s].written = r.results_so_far ]
          /\ channel' = Append(channel, [ action |-> "sentences",
                                          result |-> r.results_so_far,
                                          query |-> w.job.depends_on,
                                          base |-> w.job.base ])
    /\ UNCHANGED <<all_batches, use_cache, page_size, db, qi, client,
                   nreq, agg, store, sents, canceled, commands>>

MergeNext ==
    \E s \in 1..Len(SentIds) :
        \/ FetchBase(s)
        \/ FetchDepended(s)
        \/ SaveDepended(s)
        \/ SaveBase(s)

MergeSpec == MergeInit /\ [][MergeNext]_vars

----------------------------------------------------------------------------
(* The failure callback (FailureSpec): callbacks._general_failure applied    *)
(* to a failed job and its error                                             *)

\* the type of the error of a user-initiated interrupt
Interrupted == "Interrupted"

\* the errors a job ends with, as the worker hands them to the failure
\* callback: (typ, value).  NoSuchJobError is what Job.fetch raises inside a
\* job function on a job that has expired from the cache.
Errors ==
    { [ typ |-> Interrupted, value |-> "" ],
      [ typ |-> "DatabaseError", value |-> "relation does not exist" ],
      [ typ |-> "JobTimeoutException", value |-> "Task exceeded maximum timeout value" ],
      [ typ |-> "NoSuchJobError", value |-> "No such job: tok0" ] }

\* `"No such job" in value` on the values of the model
NoSuchJobValues == { "No such job: tok0" }

\* _general_failure without the early return on Interrupted
general_failure_unsuppressed(job, typ, value, kwargs) ==
    << job.kwargs @@ kwargs
       @@ [ status |-> "failed", kind |-> typ, value |-> value,
            traceback |-> "traceback", job |-> job.id ] >>

\* callbacks._general_failure: the messages it publishes.  The message is the
\* dict {status, kind, value, job, **kwargs, **job.kwargs}, in which a later
\* key replaces an earlier one; str(traceback) is one string here.
general_failure(job, typ, value, kwargs) ==
    IF typ = Interrupted THEN << >>
    ELSE LET jso == job.kwargs @@ kwargs
                    @@ [ status |-> "failed", kind |-> typ, value |-> value,
                         traceback |-> "traceback", job |-> job.id ]
         IN << IF jso.value \in NoSuchJobValues
               THEN [ status |-> "timeout", action |-> "timeout" ] @@ jso
               ELSE jso >>

\* the jobs the failure callback is registered for, with the kwargs they were
\* enqueued with: primary jobs, whose kwargs carry debug = app["_debug"], and
\* jobs enqueued without kwargs (export)
FailingJobs ==
    { [ id |-> "tok0", kwargs |-> [ debug |-> d ] @@ Kwargs(NewQI(c, q, q, p)) ] :
          c \in Corpora, q \in Quotas, p \in PageSizes, d \in BOOLEAN }
    \cup { [ id |-> "export", kwargs |-> << >> ] }

\* a job has failed and the worker is about to call the failure callback
FailureInit ==
    /\ \E job \in FailingJobs, e \in Errors :
          workers = << [ pc |-> "failed", job |-> job, typ |-> e.typ, value |-> e.value ] >>
    /\ all_batches = << >>
    /\ use_cache = TRUE
    /\ page_size = 0
    /\ db = << >>
    /\ qi = NewQI(<<>>, 0, 0, 0)
    /\ jobs = << >>
    /\ channel = << >>
    /\ client = NoMsg
    /\ nreq = 0
    /\ agg = NoAgg
    /\ store = << >>
    /\ sents = << >>
    /\ canceled = << >>
    /\ commands = << >>

\* the worker calls on_failure with the job and the error, and no kwargs
CallFailure ==
    /\ workers[1].pc = "failed"
    /\ LET w == workers[1] IN
          channel' = channel \o general_failure(w.job, w.typ, w.value, << >>)
    /\ workers' = [ workers EXCEPT ![1].pc = "done" ]
    /\ UNCHANGED <<all_batches, use_cache, page_size, db, qi, jobs, client,
                   nreq, agg, store, sents, canceled, commands>>

FailureNext == CallFailure

FailureSpec == FailureInit /\ [][FailureNext]_vars

----------------------------------------------------------------------------
(* Fan-out and cancellation (FanoutSpec): one Logical Query, each iteration  *)
(* with its primary, sentence and metadata jobs, the worker runtime that     *)
(* runs them and the cancellation of the running jobs.  There is one user    *)
(* in one room, so the room and user filters of cancel_running_jobs pass.    *)
(* The handler that submits the jobs of an iteration, the caller of          *)
(* cancel_running_jobs and the listener are modelled from sections 4.6 and   *)
(* 4.7 of the specification.                                                 *)

\* a job is referred to by the kind of its query and its fingerprint
QueryRef(id) == << "query", id >>
NoRef == << >>

\* `queue = "query" if not self.full else "background"`
queue_of(full) == IF full THEN "background" ELSE "query"

\* submit_sents with a dependency of its own choice: the empty one
sents_kwargs_detached(self) ==
    [ full |-> self.full,
      resume |-> self.resume,
      first_job |-> IF self.first_job # NoJobId THEN self.first_job ELSE self.job_id,
      offset |-> IF self.offset > 0 THEN self.offset ELSE 0,
      needed |-> IF self.full THEN -1 ELSE self.needed,
      total_results_requested |-> self.total_results_requested,
      user |-> self.user,
      room |-> self.room,
      depends_on |-> NoJobId ]

\* QueryIteration.submit_sents: the kwargs of the sentence and the metadata
\* job; depends_on is `to_use`, whose empty list is NoJobId here
sents_kwargs(self) ==
    [ full |-> self.full,
      resume |-> self.resume,
      first_job |-> IF self.first_job # NoJobId THEN self.first_job ELSE self.job_id,
      offset |-> IF self.offset > 0 THEN self.offset ELSE 0,
      needed |-> IF self.full THEN -1 ELSE self.needed,
      total_results_requested |-> self.total_results_requested,
      user |-> self.user,
      room |-> self.room,
      depends_on |-> IF self.job_id # NoJobId THEN self.job_id ELSE self.previous ]

\* hash((query, hash_dep, offset, needed, full)), the fingerprint of a
\* sentence job (text "sentences") and of a metadata job (text "meta")
sentences_hash(text, kwargs) ==
    << text, kwargs.depends_on, kwargs.offset, kwargs.needed, kwargs.full >>

\* the messages on the channel, each with its action
Entry(action, body) == [ action |-> action, body |-> body ]

\* the message of the success callback of a sentence or metadata job
sentences_message(id, job) ==
    Entry(id[1], [ job |-> id, query |-> job.kwargs.depends_on,
                   first_job |-> job.kwargs.first_job ])

\* the message of the failure callback, under its action if it has one
failure_messages(jsos) ==
    [ i \in 1..Len(jsos) |->
        Entry(IF "action" \in DOMAIN jsos[i] THEN jsos[i].action ELSE "", jsos[i]) ]

\* the job the runtime makes of an enqueue with depends_on: deferred until
\* the job it depends on has finished
sentences_job(kwargs, js) ==
    [ status |-> IF kwargs.depends_on # NoJobId
                    /\ js[kwargs.depends_on].status # "finished"
                 THEN "deferred" ELSE "queued",
      kwargs |-> kwargs ]

\* a finished job under the fingerprint: _attempt_sent_from_cache and
\* _attempt_meta_from_cache call the success callback on it
sent_from_cache(hashed, ss) ==
    IF hashed \in DOMAIN ss /\ ss[hashed].status = "finished"
    THEN << sentences_message(hashed, ss[hashed]) >> ELSE << >>

\* QueryIteration.meta_query: the text of the metadata query is never empty
meta_query == TRUE

\* QueryService.sentences; meta says whether there is a metadata query
sentences(meta, kwargs, cache, js, ss) ==
    LET hashed == sentences_hash("sentences", kwargs)
        hashed_meta == sentences_hash("meta", kwargs)
        ids == IF cache
               THEN sent_from_cache(hashed, ss)
                    \o (IF meta THEN sent_from_cache(hashed_meta, ss) ELSE << >>)
               ELSE << >>
        job == sentences_job(kwargs, js)
    IN IF ids # << >> THEN [ sents |-> ss, publish |-> ids ]
       ELSE [ sents |-> (IF meta THEN hashed_meta :> job ELSE << >>)
                        @@ (hashed :> job) @@ ss,
              publish |-> << >> ]

\* QueryIteration.submit_sents after submit_query: the sentence and the
\* metadata job of the iteration, beside what submit_query returned
submit_sents(self, js, published, cache, ss) ==
    IF self.outcome \in {"no_batch", "error"}
    THEN [ qi |-> self, jobs |-> js, sents |-> ss, publish |-> published ]
    ELSE [ qi |-> self, jobs |-> js,
           sents |-> sentences(meta_query, sents_kwargs(self), cache, js, ss).sents,
           publish |-> published
                       \o sentences(meta_query, sents_kwargs(self), cache, js, ss).publish ]

\* the primary messages of a handler, under their action
query_messages(msgs) == [ i \in 1..Len(msgs) |-> Entry("query", msgs[i]) ]

\* what the handler does with the iteration it has submitted the primary
\* of: submit_sents; without a primary nothing else is submitted
submit_rest(res, cache, ss) ==
    submit_sents(res.qi, res.jobs, query_messages(res.publish), cache, ss)

\* one run of the handler on an iteration
submit_iteration(self, cache, js, ss) ==
    submit_rest(run_iteration(self, cache, js), cache, ss)

\* jobfuncs._db_query as far as it decides whether the DB query runs;
\* kwargs.get gives False and None for the keys the kwargs do not have
db_query(kwargs, js) ==
    LET is_sentences == IF "is_sentences" \in DOMAIN kwargs
                        THEN kwargs.is_sentences ELSE FALSE
        current_batch == IF "current_batch" \in DOMAIN kwargs
                         THEN kwargs.current_batch ELSE None
        associated_query == js[kwargs.depends_on]
    IN IF is_sentences /\ current_batch # None
       THEN IF associated_query.status \in {"stopped", "canceled"} THEN Interrupted
            ELSE IF associated_query.status # "finished" THEN Interrupted
            ELSE IF associated_query.result = 0 THEN "empty"
            ELSE "rows"
       ELSE "rows"

\* the status and the queue of the job a reference refers to
status_of(ref, js, ss) == IF ref[1] = "query" THEN js[ref[2]].status ELSE ss[ref].status
full_of(ref, js, ss) == IF ref[1] = "query" THEN js[ref[2]].kwargs.full ELSE ss[ref].kwargs.full

\* the Logical Query of a job and of a message: its first job
first_job_of(ref, js, ss) ==
    IF ref[1] # "query" THEN ss[ref].kwargs.first_job
    ELSE IF js[ref[2]].kwargs.first_job # NoJobId THEN js[ref[2]].kwargs.first_job
    ELSE ref[2]
first_job_of_message(body) ==
    IF body.first_job # NoJobId THEN body.first_job ELSE body.job

\* the jobs of the Logical Query in the cache
Refs(js, ss) ==
    { QueryRef(id) : id \in { i \in DOMAIN js : i # NoJobId /\ js[i].status # "absent" } }
    \cup DOMAIN ss

\* Python values of the two types that meet in app["canceled"]: the id of a
\* job, a str, and a Job object; a Job equals only a Job of the same id
Str(ref) == [ type |-> "str", id |-> ref ]
JobObject(ref, js, ss) == [ type |-> "Job", id |-> ref, first_job |-> first_job_of(ref, js, ss) ]
py_eq(a, b) == a.type = b.type /\ a.id = b.id
py_in(a, s) == \E i \in 1..Len(s) : py_eq(a, s[i])

\* the state cancel and cancel_running_jobs work on
set_status(st, ref, status) ==
    IF ref[1] = "query" THEN [ st EXCEPT !.jobs[ref[2]].status = status ]
    ELSE [ st EXCEPT !.sents[ref].status = status ]

\* QueryService.cancel on a fetched job.  job.cancel() raises
\* InvalidJobOperation on a canceled job, send_stop_job_command on a job
\* that no worker is executing; the exception leaves cancel at that point.
cancel(st, ref, executing) ==
    LET status == status_of(ref, st.jobs, st.sents)
        job == JobObject(ref, st.jobs, st.sents)
        cmd(op) == [ op |-> op, job |-> ref ]
        stopped == set_status(st, ref, "canceled")
    IN IF status = "canceled" THEN [ st EXCEPT !.raised = TRUE ]
       ELSE IF ref \notin executing
       THEN [ stopped EXCEPT !.commands = Append(@, cmd("cancel")), !.raised = TRUE ]
       ELSE [ stopped EXCEPT
                !.commands = @ \o << cmd("cancel"), cmd("stop") >>,
                !.canceled = IF py_in(job, @) THEN @ ELSE Append(@, job),
                !.raised = FALSE ]

\* `maybe.kwargs.get(key)`: None when the kwargs have no such key
NoValue == "None"
kwargs_of(ref, js, ss) == IF ref[1] = "query" THEN js[ref[2]].kwargs ELSE ss[ref].kwargs
kwargs_get(kwargs, key) == IF key \in DOMAIN kwargs THEN kwargs[key] ELSE NoValue

\* the test on the user alone
in_session_any_room(kwargs, user, room) ==
    ~(user # "" /\ kwargs_get(kwargs, "user") # user)

\* cancel_running_jobs, the two tests on room and user that let the loop go
\* on to cancel: a test is skipped when the room or the user of the call is
\* empty
in_session(kwargs, user, room) ==
    /\ ~(room # "" /\ kwargs_get(kwargs, "room") # room)
    /\ ~(user # "" /\ kwargs_get(kwargs, "user") # user)

\* the loop of cancel_running_jobs over the jobs of rel_jobs, without base
RECURSIVE cancel_jobs(_, _, _, _, _)
cancel_jobs(st, rel_jobs, executing, user, room) ==
    IF rel_jobs = {} THEN st
    ELSE LET job == CHOOSE r \in rel_jobs : TRUE
             rest == rel_jobs \ {job}
         IN IF py_in(Str(job), st.canceled)
            THEN cancel_jobs(st, rest, executing, user, room)
            ELSE IF ~in_session(kwargs_of(job, st.jobs, st.sents), user, room)
            THEN cancel_jobs(st, rest, executing, user, room)
            ELSE LET c == cancel(st, job, executing) IN
                 cancel_jobs(IF c.raised THEN c ELSE [ c EXCEPT !.ids = @ \cup {job} ],
                             rest, executing, user, room)

\* started_job_registry and scheduled_job_registry of the queue `query`: the
\* jobs of that queue a worker has started; the engine schedules no job
started_job_registry(queue, js, ss) ==
    { r \in Refs(js, ss) : /\ status_of(r, js, ss) = "started"
                           /\ queue_of(full_of(r, js, ss)) = queue }

\* QueryService.cancel_running_jobs(user, room, specific_job)
cancel_running_jobs(user, room, specific_job, js, ss, cs, cmds, executing) ==
    LET rel_jobs == IF specific_job # NoRef THEN {specific_job}
                    ELSE started_job_registry("query", js, ss)
    IN cancel_jobs([ jobs |-> js, sents |-> ss, canceled |-> cs, commands |-> cmds,
                     ids |-> {}, raised |-> FALSE ],
                   rel_jobs, executing, user, room)

\* the listener drops the message of a Logical Query that has a job in the
\* canceled-set
dropped(body, cs) ==
    \E i \in 1..Len(cs) : cs[i].first_job = first_job_of_message(body)

\* the corpus, the database and the quotas of the Logical Query, and the
\* error a DB query raises
FanoutCorpora == { c \in Corpora : Len(c) = 2 /\ EndsWithRest(c[2].name) }
FanoutRowCounts == {2}
FanoutQuotas == {3}
FanoutErrors == { e \in Errors : e.typ = "DatabaseError" }

\* calls of cancel_running_jobs so far
CancelCalls == { i \in 1..Len(commands) : commands[i].op = "cancel_running_jobs" }

FanoutInit ==
    /\ \E c \in FanoutCorpora : all_batches = c
    /\ use_cache = TRUE
    /\ page_size = 40
    /\ db \in [ { b.name : b \in Range(all_batches) } -> FanoutRowCounts ]
    /\ qi = NewQI(<<>>, 0, 0, 0)
    /\ jobs = [ id \in { b.name : b \in Range(all_batches) } \cup {NoJobId} |-> NoJob ]
    /\ channel = << >>
    /\ client = NoMsg
    /\ nreq = 0
    /\ agg = NoAgg
    /\ store = << >>
    /\ workers = {}
    /\ sents = << >>
    /\ canceled = << >>
    /\ commands = << >>

\* POST /query creating the Logical Query
SubmitQuery(tot_req, full) ==
    /\ nreq = 0
    /\ LET req == [ total_results_requested |-> tot_req, full |-> full,
                    resume |-> FALSE, previous |-> NoJobId,
                    page_size |-> page_size ]
           res == submit_iteration(from_request(req, all_batches, jobs),
                                   use_cache, jobs, sents)
       IN /\ qi' = res.qi
          /\ jobs' = res.jobs
          /\ sents' = res.sents
          /\ channel' = channel \o res.publish
    /\ nreq' = nreq + 1
    /\ UNCHANGED <<all_batches, use_cache, page_size, db, client, agg, store, workers,
                   canceled, commands>>

\* a worker takes a queued job off its queue
StartJob(ref) ==
    /\ ref \in Refs(jobs, sents)
    /\ status_of(ref, jobs, sents) = "queued"
    /\ Cardinality(workers) < MaxWorkers
    /\ ref[1] = "query" => Len(jobs[ref[2]].kwargs.done_batches) < MaxDone
    /\ LET st == set_status([ jobs |-> jobs, sents |-> sents ], ref, "started")
       IN jobs' = st.jobs /\ sents' = st.sents
    /\ workers' = workers \cup {ref}
    /\ UNCHANGED <<all_batches, use_cache, page_size, db, qi, channel, client, nreq, agg,
                   store, canceled, commands>>

\* the worker finishes a primary job, runs its success callback _query and
\* enqueues the jobs that were waiting for it
FinishQuery(id) ==
    /\ QueryRef(id) \in workers
    /\ LET done == [ jobs[id] EXCEPT !.status = "finished", !.result = db[id] ]
           cb == query_callback(id, done)
       IN /\ jobs' = [ jobs EXCEPT ![id] =
                         IF cb.raised THEN done ELSE [ done EXCEPT !.meta = cb.meta ] ]
          /\ channel' = IF cb.raised THEN channel
                        ELSE Append(channel, Entry("query", cb.msg))
    /\ sents' = [ s \in DOMAIN sents |->
                    IF sents[s].kwargs.depends_on = id /\ sents[s].status = "deferred"
                    THEN [ sents[s] EXCEPT !.status = "queued" ] ELSE sents[s] ]
    /\ workers' = workers \ {QueryRef(id)}
    /\ UNCHANGED <<all_batches, use_cache, page_size, db, qi, client, nreq, agg,
                   store, canceled, commands>>

\* the worker runs _db_query of a sentence or metadata job to its end, then
\* the success callback, or the failure callback when it raised Interrupted
FinishSentences(ref) ==
    /\ ref \in workers
    /\ ref[1] # "query"
    /\ LET raised == db_query(sents[ref].kwargs, jobs) = Interrupted
           job == [ id |-> ref, kwargs |-> sents[ref].kwargs ]
       IN /\ sents' = [ sents EXCEPT ![ref].status =
                          IF raised THEN "failed" ELSE "finished" ]
          /\ channel' = channel \o
                 (IF raised
                  THEN failure_messages(general_failure(job, Interrupted, "", << >>))
                  ELSE << sentences_message(ref, sents[ref]) >>)
    /\ workers' = workers \ {ref}
    /\ UNCHANGED <<all_batches, use_cache, page_size, db, qi, jobs, client, nreq, agg,
                   store, canceled, commands>>

\* the DB query of a primary job raises an error: the job fails, the worker
\* runs the failure callback and the jobs waiting for it stay deferred
FailQuery(id, e) ==
    /\ QueryRef(id) \in workers
    /\ e.typ # Interrupted
    /\ jobs' = [ jobs EXCEPT ![id].status = "failed" ]
    /\ channel' = channel \o
           failure_messages(general_failure([ id |-> id, kwargs |-> jobs[id].kwargs ],
                                            e.typ, e.value, << >>))
    /\ workers' = workers \ {QueryRef(id)}
    /\ UNCHANGED <<all_batches, use_cache, page_size, db, qi, client, nreq, agg,
                   store, sents, canceled, commands>>

\* the client cancels: cancel_running_jobs for its user and room, or for the
\* job of the iteration
CancelRunningJobs(specific_job) ==
    /\ qi.job_id # NoJobId
    /\ Cardinality(CancelCalls) < MaxCancels
    /\ LET call == [ op |-> "cancel_running_jobs", job |-> QueryRef(qi.job_id),
                     status |-> jobs[qi.job_id].status ]
           st == cancel_running_jobs(User, Room, specific_job, jobs, sents, canceled,
                                     Append(commands, call), workers)
       IN /\ jobs' = st.jobs
          /\ sents' = st.sents
          /\ canceled' = st.canceled
          /\ commands' = st.commands
    /\ UNCHANGED <<all_batches, use_cache, page_size, db, qi, channel, client, nreq, agg,
                   store, workers>>

\* the worker that executes a job gets the stop command for it and kills
\* the job; no callback runs
StopJob(ref) ==
    /\ ref \in workers
    /\ \E i \in 1..Len(commands) : commands[i].op = "stop" /\ commands[i].job = ref
    /\ LET st == set_status([ jobs |-> jobs, sents |-> sents ], ref, "stopped")
       IN jobs' = st.jobs /\ sents' = st.sents
    /\ workers' = workers \ {ref}
    /\ UNCHANGED <<all_batches, use_cache, page_size, db, qi, channel, client, nreq, agg,
                   store, canceled, commands>>

\* the listener hears a message: it drops it, or forwards it and, on a
\* `partial` primary message, starts the next iteration
Listen ==
    /\ channel # << >>
    /\ LET e == Head(channel)
           restart == /\ ~dropped(e.body, canceled)
                      /\ e.action = "query"
                      /\ warrants_continuation(e.body)
           res == submit_iteration(from_manual(continuation(e.body), jobs),
                                   use_cache, jobs, sents)
       IN /\ client' = IF dropped(e.body, canceled) THEN client ELSE e.body
          /\ qi' = IF restart THEN res.qi ELSE qi
          /\ jobs' = IF restart THEN res.jobs ELSE jobs
          /\ sents' = IF restart THEN res.sents ELSE sents
          /\ channel' = Tail(channel) \o (IF restart THEN res.publish ELSE << >>)
    /\ UNCHANGED <<all_batches, use_cache, page_size, db, nreq, agg, store, workers,
                   canceled, commands>>

FanoutNext ==
    \/ \E q \in FanoutQuotas, f \in BOOLEAN : SubmitQuery(q, f)
    \/ \E r \in Refs(jobs, sents) : StartJob(r)
    \/ \E id \in JobIds : FinishQuery(id)
    \/ \E r \in DOMAIN sents : FinishSentences(r)
    \/ \E id \in JobIds, e \in FanoutErrors : FailQuery(id, e)
    \/ \E s \in {NoRef, QueryRef(qi.job_id)} : CancelRunningJobs(s)
    \/ \E r \in Refs(jobs, sents) : StopJob(r)
    \/ Listen

FanoutSpec == FanoutInit /\ [][FanoutNext]_vars

----------------------------------------------------------------------------
(* Cancellation among the jobs of several sessions (SessionSpec):            *)
(* QueryService.cancel_running_jobs called for a user and a room while the   *)
(* registries hold jobs of that session and of others                        *)

\* the ids of the primary jobs in the cache
SessionIds == { "tok0", "tokrest" }

\* a primary job on the queue `query`, submitted for a user and a room
SessionJob(status, user, room) ==
    [ status |-> status,
      kwargs |-> [ Kwargs(NewQI(<< >>, -1, -1, 0)) EXCEPT !.user = user, !.room = room ],
      result |-> 0,
      meta |-> NoMeta ]

\* the cache holds up to two primary jobs, each queued, started or finished;
\* the started ones are being executed
SessionInit ==
    /\ jobs \in [ SessionIds \cup {NoJobId} ->
                    {NoJob} \cup { SessionJob(st, u, r) :
                                      st \in {"queued", "started", "finished"},
                                      u \in JobUsers, r \in JobRooms } ]
    /\ jobs[NoJobId] = NoJob
    /\ workers = { QueryRef(id) : id \in { i \in SessionIds : jobs[i].status = "started" } }
    /\ all_batches = << >>
    /\ use_cache = TRUE
    /\ page_size = 0
    /\ db = << >>
    /\ qi = NewQI(<<>>, 0, 0, 0)
    /\ channel = << >>
    /\ client = NoMsg
    /\ nreq = 0
    /\ agg = NoAgg
    /\ store = << >>
    /\ sents = << >>
    /\ canceled = << >>
    /\ commands = << >>

\* a client cancels: cancel_running_jobs(user, room) or
\* cancel_running_jobs(user, room, specific_job) for a job in the cache
CancelSession(user, room, specific_job) ==
    /\ Cardinality(CancelCalls) < MaxCancels
    /\ specific_job # NoRef => jobs[specific_job[2]].status # "absent"
    /\ LET call == [ op |-> "cancel_running_jobs", user |-> user, room |-> room,
                     job |-> specific_job ]
           st == cancel_running_jobs(user, room, specific_job, jobs, sents, canceled,
                                     Append(commands, call), workers)
       IN /\ jobs' = st.jobs
          /\ sents' = st.sents
          /\ canceled' = st.canceled
          /\ commands' = st.commands
    /\ UNCHANGED <<all_batches, use_cache, page_size, db, qi, channel, client, nreq, agg,
                   store, workers>>

SessionNext ==
    \E user \in CallUsers, room \in CallRooms,
       specific_job \in {NoRef} \cup { QueryRef(id) : id \in SessionIds } :
        CancelSession(user, room, specific_job)

SessionSpec == SessionInit /\ [][SessionNext]_vars

----------------------------------------------------------------------------
(* The sentence and the metadata job against the cache (SentencesSpec):      *)
(* QueryService.sentences called for an iteration whose sentence job, whose  *)
(* metadata job, both or neither are finished in the cache                   *)

\* the primary job the iteration depends on
SentencesPrimary == "tok0"

\* the iteration submit_sents is called on
SentencesQI(tot_req, full, offset) ==
    [ NewQI(<< >>, tot_req, tot_req, 0) EXCEPT
        !.job_id = SentencesPrimary, !.full = full, !.offset = offset ]

\* the primary of the iteration is queued or finished; under each of the two
\* fingerprints of the iteration there is a finished job in the cache or none
SentencesInit ==
    /\ \E tot_req \in Quotas, full \in BOOLEAN, offset \in 0..MaxOffset :
          qi = SentencesQI(tot_req, full, offset)
    /\ \E status \in {"queued", "finished"} :
          jobs = (SentencesPrimary :> [ NoJob EXCEPT !.status = status ])
                 @@ (NoJobId :> NoJob)
    /\ \E cached \in SUBSET { sentences_hash(text, sents_kwargs(qi)) :
                                text \in {"sentences", "meta"} } :
          sents = [ h \in cached |-> [ status |-> "finished",
                                       kwargs |-> sents_kwargs(qi) ] ]
    /\ use_cache \in BOOLEAN
    /\ all_batches = << >>
    /\ page_size = 0
    /\ db = << >>
    /\ channel = << >>
    /\ client = NoMsg
    /\ nreq = 0
    /\ agg = NoAgg
    /\ store = << >>
    /\ workers = {}
    /\ canceled = << >>
    /\ commands = << >>

\* QueryService.sentences for the iteration, with a metadata query or with
\* an empty one
CallSentences(meta) ==
    /\ commands = << >>
    /\ LET r == sentences(meta, sents_kwargs(qi), use_cache, jobs, sents)
       IN /\ sents' = r.sents
          /\ channel' = channel \o r.publish
    /\ commands' = << [ op |-> "sentences", meta |-> meta ] >>
    /\ UNCHANGED <<all_batches, use_cache, page_size, db, qi, jobs, client, nreq, agg,
                   store, workers, canceled>>

SentencesNext == \E meta \in BOOLEAN : CallSentences(meta)

SentencesSpec == SentencesInit /\ [][SentencesNext]_vars

----------------------------------------------------------------------------
(* utils._add_results as the primary callback calls it (AddResultsSpec): on  *)
(* the rows of one primary job, whatever result sets its descriptor declares *)

\* the descriptors of a query: with two plain result sets, with one, with
\* none
AnyDescriptors == Descriptors \cup { << "stats", "stats" >> }

\* the totals found before the job
TotalsBefore == {0, 1}

\* _query is about to call _add_results(result, total_before_now, unlimited,
\* False, False, total_requested, kwic=False) on the rows of its job
AddResultsInit ==
    /\ \E desc \in AnyDescriptors, keys \in KeyLists, tot_req \in AggQuotas,
          so_far \in TotalsBefore :
          workers = << [ pc |-> "call",
                         result |-> BatchResult(1, desc, keys),
                         so_far |-> so_far,
                         unlimited |-> tot_req = -1,
                         total_requested |-> tot_req,
                         bundle |-> EmptyMap,
                         n_results |-> 0 ] >>
    /\ all_batches = << >>
    /\ use_cache = FALSE
    /\ page_size = 0
    /\ db = << >>
    /\ qi = NewQI(<<>>, 0, 0, 0)
    /\ jobs = << >>
    /\ channel = << >>
    /\ client = NoMsg
    /\ nreq = 0
    /\ agg = NoAgg
    /\ store = << >>
    /\ sents = << >>
    /\ canceled = << >>
    /\ commands = << >>

\* the call returns the bundle and the count, or an exception leaves it
CallAddResults ==
    /\ workers[1].pc = "call"
    /\ LET w == workers[1]
           r == add_results(w.result, w.so_far, w.unlimited, 0, NoRestart,
                            w.total_requested, FALSE)
       IN workers' = << IF r.raised THEN [ w EXCEPT !.pc = "raised" ]
                        ELSE [ w EXCEPT !.pc = "returned",
                                        !.bundle = r.bundle,
                                        !.n_results = r.n_results ] >>
    /\ UNCHANGED <<all_batches, use_cache, page_size, db, qi, jobs, channel, client,
                   nreq, agg, store, sents, canceled, commands>>

AddResultsNext == CallAddResults

AddResultsSpec == AddResultsInit /\ [][AddResultsNext]_vars

----------------------------------------------------------------------------
(* Vocabulary of the properties *)

\* an iteration has been through the controller
Decided == qi.origin # "none"
\* decide_batch returned a batch
Chosen == Decided /\ qi.ret # None /\ qi.ret # Raise

\* the batches of a QueryIteration that are not done
NotDone(self) == { b \in Range(self.all_batches) : b \notin Range(self.done_batches) }

\* the smallest batch of a non-empty set, by approximate_row_count
Smallest(S) == CHOOSE b \in S : \A c \in S : b.size <= c.size

\* the resumption rule applies to the iteration
Resumption(self) == self.resume /\ self.done_batches # <<>>

NoDuplicates(s) == \A i, j \in 1..Len(s) : s[i] = s[j] => i = j

\* every message published so far that is still in the model's state
Published == Range(channel) \cup (IF client = NoMsg THEN {} ELSE {client})

\* no primary job is queued and no message waits for the listener
Quiescent == channel = <<>> /\ \A id \in JobIds : jobs[id].status # "queued"

----------------------------------------------------------------------------
(* Batch Selector *)

\* C4: decide_batch never returns a batch that is already in done_batches,
\* except the last done batch under the resumption rule.
C4_Monotone ==
    (Chosen /\ qi.ret \in Range(qi.done_batches))
        => (Resumption(qi) /\ qi.ret = Last(qi.done_batches))

\* a continuation chose a batch among done and not-done ones
C4_Witness ==
    /\ Chosen
    /\ ~qi.resume
    /\ Len(qi.done_batches) >= 2
    /\ qi.ret \notin Range(qi.done_batches)

Qualifying(self) ==
    LET rows == SumSizes(Range(self.done_batches)) IN
    { b \in NotDone(self) :
        10 * b.size * self.total_results_so_far >= 11 * self.needed * rows }

\* a subsequent iteration under quota that is not a resumption call
UnderQuota(self) ==
    /\ self.done_batches # <<>>
    /\ ~self.full
    /\ self.needed # -1
    /\ ~self.resume
    /\ NotDone(self) # {}

C9_Resumption ==
    (Decided /\ Resumption(qi)) =>
        /\ qi.ret = Last(qi.done_batches)
        /\ qi.no_more_data <=> (NotDone(qi) = {})

\* C10: a resumption call re-enters the last done batch without running its
\* primary again: submit_query enqueues no primary job, re-runs no primary
\* callback and hands back the previous job, whatever the offset.
C10_NoPrimaryOnResume ==
    (Chosen /\ Resumption(qi)) => qi.outcome = "previous"

----------------------------------------------------------------------------
(* Status and done batches *)

\* C1: the primary-success handler sets _status to finished exactly when every
\* batch of all_batches is done once the current batch is added, otherwise to
\* satisfied exactly when a quota is defined and total_found >= quota, and to
\* partial in every remaining case.
C1_Status ==
    \A id \in JobIds :
        jobs[id].meta.status # "none" =>
            LET kw == jobs[id].kwargs
                done == Range(kw.done_batches) \cup {kw.current_batch}
                total_found == kw.total_results_so_far + jobs[id].result
                quota == kw.total_results_requested
            IN jobs[id].meta.status =
                   IF Range(kw.all_batches) \subseteq done THEN "finished"
                   ELSE IF quota > 0 /\ total_found >= quota THEN "satisfied"
                   ELSE "partial"

\* C2: when the query reaches a terminal status, the set of done_batches
\* equals all_batches if and only if the status is finished.
C2_FinishedIffAllDone ==
    \A m \in Published :
        m.status \in {"finished", "satisfied"} =>
            (Range(m.done_batches) = Range(m.all_batches) <=> m.status = "finished")

\* C3: done_batches never holds a batch twice, and holds batches of
\* all_batches only: in the iteration object, in the descriptor of every job
\* and in every published message.
C3_DoneBatches ==
    /\ NoDuplicates(qi.done_batches)
    /\ Range(qi.done_batches) \subseteq Range(qi.all_batches)
    /\ \A id \in JobIds :
          /\ NoDuplicates(jobs[id].kwargs.done_batches)
          /\ Range(jobs[id].kwargs.done_batches) \subseteq Range(jobs[id].kwargs.all_batches)
    /\ \A m \in Published :
          /\ NoDuplicates(m.done_batches)
          /\ Range(m.done_batches) \subseteq Range(m.all_batches)

\* C8: a full-corpus Logical Query ends with status finished and every batch
\* done: once its jobs have run and its messages are heard, the last message
\* is `finished` with done_batches = all_batches.
C8_FullCorpusFinishes ==
    (nreq = 1 /\ qi.full /\ Quiescent) =>
        /\ client.status = "finished"
        /\ Range(client.done_batches) = Range(all_batches)

----------------------------------------------------------------------------
(* Batch Selector, as a function of the iteration (SelectorSpec) *)

\* decide_batch has been applied to the iteration
Selected == qi.origin = "selector"

\* C11: on a non-resumption call with as many done batches as there are
\* batches, decide_batch returns no batch and sets no_more_data; on every other
\* non-resumption call with a batch left not done it returns a batch and
\* leaves no_more_data unset.
C11_AllDone ==
    (Selected /\ ~Resumption(qi)) =>
        /\ Len(qi.done_batches) = Len(qi.all_batches)
              => (qi.ret = None /\ qi.no_more_data)
        /\ (Len(qi.done_batches) # Len(qi.all_batches) /\ NotDone(qi) # {})
              => (qi.ret \in Range(qi.all_batches) /\ ~qi.no_more_data)

\* every batch of a three-batch corpus is done and the call is no resumption
C11_Witness ==
    /\ Selected
    /\ ~qi.resume
    /\ Len(qi.all_batches) = 3
    /\ Len(qi.done_batches) = 3
    /\ qi.ret = None
    /\ qi.no_more_data

----------------------------------------------------------------------------
(* Result Aggregator (AggSpec) *)

\* every primary job answered with the same descriptor and no callback was
\* handed a hit_limit
Regular ==
    /\ ~agg.restarted
    /\ \A i \in 1..Len(agg.returned) : agg.returned[i][1].rest = agg.returned[1][1].rest

RECURSIVE SumLen(_, _)
SumLen(m, K) ==
    IF K = {} THEN 0
    ELSE LET k == CHOOSE x \in K : TRUE IN Len(Get(m, k)) + SumLen(m, K \ {k})

\* the rows of plain result sets in the result of a primary job
PlainRows(result) ==
    Cardinality({ j \in 2..Len(result) : result[j].key \in plain_indices(result[1].rest) })

RECURSIVE SumPlainRows(_)
SumPlainRows(results) ==
    IF results = << >> THEN 0
    ELSE PlainRows(Head(results)) + SumPlainRows(Tail(results))

\* the rows of result set k in a result, in order
RECURSIVE RowsOf(_, _)
RowsOf(result, k) ==
    IF result = << >> THEN << >>
    ELSE (IF Head(result).key = k THEN << Head(result).rest >> ELSE << >>)
             \o RowsOf(Tail(result), k)

\* C13: for a finished query with a quota and without the full flag, the
\* hydrated rows of all plain result sets together are at most
\* total_results_requested.
C13_Quota ==
    (agg.status = "finished" /\ ~agg.full /\ agg.total_results_requested > 0
        /\ Regular /\ agg.sentences # EmptyMap)
    => SumLen(agg.sentences, plain_indices(agg.sentences[0]))
           <= agg.total_results_requested

\* C14: after each primary callback the total_results_so_far of the job meta
\* is the number of rows of plain result sets that the primary jobs of the
\* done batches returned, the rows of every plain result set counted.
C14_TotalSoFar ==
    (agg.returned # << >> /\ Regular)
        => agg.meta_total = SumPlainRows(agg.returned)

\* C15: in the union of a bucket into the cumulative map a plain index is
\* extended by the incoming rows and a non-plain index holds exactly the
\* incoming rows.
C15_Union ==
    (agg.published # << >>) =>
        LET u == agg.union IN
        \A k \in DOMAIN u.incoming \ {0} :
            u.out[k] = IF k \in plain_indices(u.out[0])
                       THEN Get(u.so_far, k) \o u.incoming[k]
                       ELSE u.incoming[k]

\* C16: hydrating a quota-bounded result with offset k > 0 leaves out exactly
\* the first k rows of each plain index and hydrates the rows that follow, up
\* to the quota.
C16_Offset ==
    (agg.hydrated /\ agg.depended[1].args.offset > 0
                  /\ ~agg.depended[1].args.unlimited) =>
        LET a == agg.depended[1].args
            result == agg.depended[1].result
            room == IF a.total_requested > a.so_far
                    THEN a.total_requested - a.so_far ELSE 0
        IN \A k \in get_kwics(result) :
              LET rows == RowsOf(result, k)
                  kept == Slice(SubSeq(rows, a.offset + 1, Len(rows)), room)
              IN Get(agg.union.incoming, k)
                     = [ i \in 1..Len(kept) |-> make_kwic_line(kept[i]) ]

----------------------------------------------------------------------------
(* Fingerprints and the cache (CacheSpec) *)

\* the batches whose rows the primary callback of a job unions into the
\* cumulative result map of its message: those done before it, of which the
\* iteration inherits the result map, and its own
Aggregated(job) == Append(job.kwargs.done_batches, job.kwargs.current_batch)

\* the messages a handler put on the channel in this step (the listener's
\* continuation takes one message off the channel first)
NewMessages ==
    IF nreq' # nreq THEN Len(channel') - Len(channel)
    ELSE Len(channel') - Len(channel) + 1

\* the outcomes of submit_query that are cache hits
CacheHits == {"replayed_messages", "replayed_callback", "cached"}

\* C18: two primary jobs with equal fingerprints yield equal aggregated result
\* maps: a job enqueued under the fingerprint of a finished job aggregates the
\* results of the same batches, whatever the quota and the results so far of
\* its request.
C18_Interchangeable ==
    [][ \A id \in JobIds :
          (jobs[id].status = "finished" /\ jobs'[id].status = "queued")
              => Aggregated(jobs'[id]) = Aggregated(jobs[id]) ]_vars

\* C19: with caching enabled no job is enqueued under the fingerprint of a
\* job that is finished in the cache.
C19_NoEnqueueOnHit ==
    [][ \A id \in JobIds :
          (use_cache /\ jobs[id].status = "finished")
              => jobs'[id].status # "queued" ]_vars

\* C20: a handler that hits the cache on a finished primary job publishes a
\* progress message of that job, for quota-bounded and full-corpus requests
\* alike.
C20_ReplayPublishes ==
    [][ (qi' # qi /\ qi'.outcome \in CacheHits)
          => /\ NewMessages >= 1
             /\ Last(channel').job = qi'.job_id ]_vars

----------------------------------------------------------------------------
(* Replay under the caller's descriptor (ReplaySpec) *)

\* C21: the result of a replayed message is the full result of the job
\* filtered by the descriptor of the caller, whenever that descriptor differs
\* from the one the message was stored under, the empty descriptor included.
C21_CallerDescriptor ==
    (channel # << >> /\ qi.post_processes # jobs[ReplayJob].kwargs.post_processes)
        => channel[1].result = apply_filters(channel[1].full_result, qi.post_processes)

----------------------------------------------------------------------------
(* The primary callback called again (HandlerSpec) *)

\* C22: every call of _query with the same job and the same result publishes
\* the same status, done_batches, total_results_so_far and percentage_done and
\* the same cumulative result map.
C22_Idempotent ==
    \A i, j \in 1..Len(channel) : channel[i] = channel[j]

----------------------------------------------------------------------------
(* Ordering of the iterations (Spec) *)

\* the primary jobs of the Logical Query that are submitted and not finished
Unfinished == { id \in JobIds : jobs[id].status = "queued" }

\* C26: the iterations of the Logical Query are serialised: at no time are two
\* of its primary jobs both submitted and not yet finished.
C26_Serialised == Cardinality(Unfinished) <= 1

----------------------------------------------------------------------------
(* Merges into the meta of the base job (MergeSpec) *)

\* callback a merged into the base as it was at first, and callback b merged
\* into what a saved
OneAfterTheOther(a, b) ==
    /\ workers[a].pc = "done"
    /\ workers[b].pc = "done"
    /\ workers[b].read = workers[a].written

\* C24: for two sentence jobs of the same primary, merging one and then the
\* other into the base job's _sentences gives the same value as merging them
\* in the other order.
C24_MergeCommutes ==
    \A a, b \in 1..Len(SentIds) :
        (a # b /\ OneAfterTheOther(a, b)
             /\ workers[a].job.depends_on = workers[b].job.depends_on) =>
            workers[b].written =
                merge(merge(workers[a].read, workers[b].depended,
                            workers[b].total_results_requested).results_so_far,
                      workers[a].depended,
                      workers[a].total_results_requested).results_so_far

\* C25: whatever the interleaving of the steps of the two callbacks, once both
\* are done the _sentences of the base job holds the rows of both.
C25_NoLostUpdate ==
    (\A s \in 1..Len(SentIds) : workers[s].pc = "done") =>
        \A s \in 1..Len(SentIds) :
            \A k \in DOMAIN workers[s].new_res \ {0} :
                Range(workers[s].new_res[k])
                    \subseteq Range(Get(jobs[FirstJob].meta.sentences, k))

----------------------------------------------------------------------------
(* The failure callback (FailureSpec) *)

\* the failure callback has been called
Failed == workers[1].pc = "done"

\* the message published for the failed job carries the kind and the value
\* of its error, and one of the statuses S
PublishedWith(S) ==
    /\ Len(channel) = 1
    /\ channel[1].status \in S
    /\ channel[1].kind = workers[1].typ
    /\ channel[1].value = workers[1].value

\* C30: the failure callback publishes exactly one message for a failed job
\* whose error is not Interrupted, with status `failed` and the kind and the
\* value of the error, whatever the kwargs of the job, and publishes nothing
\* when the error is Interrupted.
C30_Failed ==
    Failed => IF workers[1].typ = Interrupted THEN channel = << >>
              ELSE PublishedWith({"failed"})

\* C30, amended: as above, except that an error whose value says "No such
\* job" is published with status `timeout` and action `timeout` in place of
\* status `failed`.
C30_FailedOrTimeout ==
    Failed => IF workers[1].typ = Interrupted THEN channel = << >>
              ELSE IF workers[1].typ = "NoSuchJobError"
                   THEN PublishedWith({"timeout"}) /\ channel[1].action = "timeout"
              ELSE PublishedWith({"failed"}) /\ "action" \notin DOMAIN channel[1]

\* a job with kwargs has failed with NoSuchJobError and its message is out
C30_Witness ==
    /\ Failed
    /\ workers[1].typ = "NoSuchJobError"
    /\ workers[1].job.kwargs # << >>
    /\ channel # << >>

----------------------------------------------------------------------------
(* Fan-out and cancellation (FanoutSpec) *)

\* the sentence and metadata jobs a step enqueues
Enqueued == DOMAIN sents' \ DOMAIN sents

CancelStep == Len(commands') > Len(commands)
NewCommands == { commands'[i] : i \in (Len(commands) + 1)..Len(commands') }

\* the jobs of the Logical Query that are not yet terminal: queued, waiting
\* on their dependency, or started
NonTerminal ==
    { r \in Refs(jobs, sents) :
        status_of(r, jobs, sents) \in {"queued", "deferred", "started"} }

\* C27: a cancellation sends a stop command for every not-yet-terminal job
\* of the Logical Query, primary, sentence or metadata, queued, deferred or
\* started, on the queue `query` or `background`.
C27_StopsAll ==
    [][ CancelStep =>
          \A r \in NonTerminal : \E c \in NewCommands : c.op = "stop" /\ c.job = r ]_vars

\* the jobs with an entry in the canceled-set
Recorded(cs) == { cs[i].id : i \in 1..Len(cs) }

\* C28: every job a cancellation cancels is recorded in the canceled-set,
\* and a cancellation that covers a job already in the canceled-set sends no
\* further cancel or stop command for it and adds no second entry for it.
C28_Idempotent ==
    [][ CancelStep =>
          /\ \A r \in Refs(jobs, sents) :
                (status_of(r, jobs, sents) # "canceled"
                    /\ status_of(r, jobs', sents') = "canceled")
                  => r \in Recorded(canceled')
          /\ \A r \in Recorded(canceled) :
                /\ \A c \in NewCommands : c.op \in {"cancel", "stop"} => c.job # r
                /\ Cardinality({ i \in 1..Len(canceled') : canceled'[i].id = r }) = 1 ]_vars

\* the client has canceled while the primary of the iteration was submitted
\* and not finished
CanceledEarly ==
    \E i \in CancelCalls : commands[i].status \in {"queued", "started"}

\* a sentence or metadata job gets to the end of its DB query and its success
\* callback
Hydrated(r) == sents[r].status = "started" /\ sents'[r].status = "finished"

\* C29: once the client has canceled before the primary of the iteration
\* finished, no message of the Logical Query is delivered to the client and
\* no continuation iteration is started; a sentence or metadata job whose
\* primary is stopped, canceled or without result does not run its DB query
\* and publishes nothing.
C29_NothingAfterCancel ==
    [][ /\ CanceledEarly => (client' = client /\ qi' = qi)
        /\ \A r \in DOMAIN sents :
              Hydrated(r) => jobs[sents[r].kwargs.depends_on].status = "finished" ]_vars

\* C31: the message of a failed job that ran with debug off carries no
\* traceback.
C31_TracebackInDebugOnly ==
    (/\ Failed
     /\ channel # << >>
     /\ "debug" \in DOMAIN workers[1].job.kwargs
     /\ ~workers[1].job.kwargs.debug)
        => "traceback" \notin DOMAIN channel[1]

\* C32: the failure of a job that exceeded its timeout is published with
\* action `timeout`, not as a plain `failed` message.
C32_TimeoutAction ==
    (Failed /\ workers[1].typ = "JobTimeoutException")
        => /\ Len(channel) = 1
           /\ "action" \in DOMAIN channel[1]
           /\ channel[1].action = "timeout"
           /\ channel[1].status # "failed"

\* C33: the meta of a finished primary job is sealed: no step of the callback
\* of another job changes it.
C33_MetaSealed ==
    [][ \A id \in {FirstJob, SecondJob} :
          jobs[id].status = "finished" => jobs'[id].meta = jobs[id].meta ]_vars

----------------------------------------------------------------------------
(* Cancellation and sessions (SessionSpec) *)

\* the call of cancel_running_jobs of this step, and the jobs it canceled or
\* sent a command for
SessionCall == commands'[Len(commands) + 1]
Touched ==
    { id \in SessionIds : jobs'[id].status # jobs[id].status }
    \cup { commands'[i].job[2] : i \in (Len(commands) + 2)..Len(commands') }
OfSession(id, call) ==
    /\ jobs[id].kwargs.user = call.user
    /\ jobs[id].kwargs.room = call.room

\* C34 as stated: a call of cancel_running_jobs, whatever user and room it
\* names, cancels or stops only jobs of that user and that room.
C34_OtherSessions ==
    [][ commands' # commands
          => \A id \in Touched : OfSession(id, SessionCall) ]_vars

\* C34, amended: a call of cancel_running_jobs that names a user and a room,
\* neither of them empty, cancels or stops only jobs of that user and that
\* room, with and without specific_job.
C34_NamedSession ==
    [][ (commands' # commands /\ SessionCall.user # "" /\ SessionCall.room # "")
          => \A id \in Touched : OfSession(id, SessionCall) ]_vars

\* one call that named a user, a room and a job of another session, and
\* canceled nothing, and one that named the session of a started job and
\* canceled it while a started job of another session is in the registry
C34_Witness ==
    /\ Cardinality(CancelCalls) = 2
    /\ \E i, k \in CancelCalls :
          /\ commands[i].user # "" /\ commands[i].room # ""
          /\ commands[i].job # NoRef
          /\ jobs[commands[i].job[2]].kwargs.user # commands[i].user
          /\ jobs[commands[i].job[2]].status = "started"
          /\ commands[k].user # "" /\ commands[k].room # ""
          /\ commands[k].job = NoRef
          /\ \E id \in SessionIds :
                /\ jobs[id].status = "canceled"
                /\ jobs[id].kwargs.user = commands[k].user
                /\ jobs[id].kwargs.room = commands[k].room

----------------------------------------------------------------------------
(* Replay for another session, and the stored messages (ReplaySpec) *)

\* C35: every message a replay publishes is addressed to the user and the
\* room of the request that triggered it, on the path of send_all_data and on
\* the path of the primary callback.
C35_Addressee ==
    \A i \in 1..Len(channel) :
        /\ channel[i].user = qi.user
        /\ channel[i].room = qi.room

\* the stored messages the meta of the replayed job names
Named(job) ==
    {job.meta.latest_stats_message}
    \cup Range(job.meta.sent_job_ws_messages)
    \cup Range(job.meta.meta_job_ws_messages)

\* the messages on the channel that send_all_data published
Resent == { i \in 1..Len(channel) : channel[i].no_restart }

\* C36: send_all_data publishes the stats message and every stored sentence
\* and metadata message of the job and returns True, or publishes none of
\* them and returns False.
C36_AllOrNothing ==
    (channel # << >> /\ qi.first_job = ReplayJob) =>
        \/ /\ qi.outcome = "replayed_messages"
           /\ Cardinality(Resent) = Cardinality(Named(jobs[ReplayJob]))
           /\ Resent = 1..Len(channel)
        \/ /\ qi.outcome = "replayed_callback"
           /\ Resent = {}

\* send_all_data found the stats message and one of the two other messages
\* the job names, not the other: it returned False and the primary callback
\* published
C36_Witness ==
    /\ channel # << >>
    /\ qi.first_job = ReplayJob
    /\ Cardinality(Named(jobs[ReplayJob])) = 3
    /\ Cardinality(DOMAIN store) = 2
    /\ StatsMessage \in DOMAIN store
    /\ qi.outcome = "replayed_callback"

----------------------------------------------------------------------------
(* Sentences and metadata, cached or not (SentencesSpec) *)

\* the job under the fingerprint was replayed from the cache by this call,
\* or is enqueued
ReplayedOrEnqueued(h) ==
    \/ \E i \in 1..Len(channel) : channel[i].body.job = h
    \/ h \in DOMAIN sents /\ sents[h].status \in {"queued", "deferred"}

\* C37: after sentences() has returned from a call with a metadata query,
\* the sentence result and the metadata result have each been replayed from
\* the cache or enqueued.
C37_BothServed ==
    (commands # << >> /\ commands[1].meta) =>
        \A text \in {"sentences", "meta"} :
            ReplayedOrEnqueued(sentences_hash(text, sents_kwargs(qi)))

----------------------------------------------------------------------------
(* One job per fingerprint (CacheSpec) *)

\* C38: query() enqueues no job under a fingerprint while a job under that
\* fingerprint is submitted and not yet finished.
C38_OneInFlight ==
    [][ (<<qi, nreq>>' # <<qi, nreq>> /\ qi'.outcome = "enqueued")
          => jobs[qi'.job_id].status # "queued" ]_vars

----------------------------------------------------------------------------
(* The running total handed from iteration to iteration (Spec) *)

\* C39: the total_results_so_far that a continuation takes from the message
\* of the iteration before it is not negative and not below the total the
\* iteration before it started from.
C39_TotalMonotone ==
    [][ (qi' # qi /\ qi'.origin = "manual")
          => /\ qi'.total_results_so_far >= 0
             /\ qi'.total_results_so_far >= qi.total_results_so_far ]_vars

----------------------------------------------------------------------------
(* The count of a primary result (AddResultsSpec) *)

\* C40: _add_results returns a bundle and a count for every primary result
\* that carries a descriptor row, and the count 0 when the descriptor
\* declares no plain result set; it never raises.
C40_AlwaysReturns ==
    workers[1].pc # "call" =>
        /\ workers[1].pc = "returned"
        /\ get_kwics(workers[1].result) = {} => workers[1].n_results = 0

====
